---- MODULE Spec2Model ----
(***************************************************************************)
(* Model of python_optimization/container_optimizer.py: the               *)
(* ContainerOptimizer object (ports, containers, routes), load_data and    *)
(* the three optimizer operations.  The OR-Tools solvers are modelled by   *)
(* their contract: a MILP solve returns OPTIMAL with one of the optimal    *)
(* points of the model that the code built, or a non-optimal status when   *)
(* the model has no feasible point; the routing solve returns a route      *)
(* that satisfies the dimension constraints, or nothing.                   *)
(* Costs are integers here (floats in the code) and a distance is a whole  *)
(* number of tenths of a kilometre.  load_data takes the payload with the  *)
(* keys of the JSON objects and builds the records.  Fields of             *)
(* the dataclasses that no operation reads (handling_cost, coordinates,    *)
(* dwell_time, next_booking_port, transit_time_hours) are left out.        *)
(***************************************************************************)
EXTENDS Integers, Sequences, FiniteSets, TLC

VARIABLES
    ports,        \* self.ports: Port records in dict insertion order, names unique
    containers,   \* self.containers: list of Container records
    routes,       \* self.routes: list of Route records
    pc,           \* main: "new" after __init__, "loaded" when load_data returned
                  \* True, "failed" when it returned False, "done" once an
                  \* optimizer has returned, "exited" when the process has ended
    input_data,   \* main: the payload handed to the last load_data
    history,      \* the payloads handed to load_data so far, oldest first
    call,         \* the last optimizer call: its name and arguments
    result,       \* the object that call returned
    previous,     \* the optimizer call before the last one, and its result
    stdout,       \* what the process has printed to standard output
    stderr,       \* what the process has printed to standard error
    exit_code     \* the exit status, -1 while the process runs

vars == <<ports, containers, routes, pc, input_data, history, call, result,
          previous, stdout, stderr, exit_code>>

(***************************************************************************)
(* Program constants.                                                      *)
(***************************************************************************)
TimeHorizon == 7
FlowUpperBound == 1000
DefaultRouteCost == 50
DefaultRouteCapacity == 100
VehicleCapacity == 100
UnknownRouteDistance == 1000
BaseCost == 10
TypePenalty == 1000
UrgencyWeight == 5

\* distance_km is a float: the model holds a distance in tenths of a kilometre.
Tenths == 10

(***************************************************************************)
(* Generic helpers.                                                        *)
(***************************************************************************)
Min2(a, b) == IF a <= b THEN a ELSE b

MinOf(S) == CHOOSE x \in S : \A y \in S : x <= y

RECURSIVE SumSet(_, _)
\* Sum of f[k] over the keys k in S.
SumSet(f, S) ==
    IF S = {} THEN 0
    ELSE LET k == CHOOSE x \in S : TRUE IN f[k] + SumSet(f, S \ {k})

RECURSIVE SumSeq(_)
SumSeq(s) == IF s = <<>> THEN 0 ELSE Head(s) + SumSeq(Tail(s))

Range(s) == {s[i] : i \in 1..Len(s)}

RECURSIVE Perms(_)
\* All orderings of the finite set S, as sequences.
Perms(S) ==
    IF S = {} THEN {<<>>}
    ELSE UNION {{<<x>> \o p : p \in Perms(S \ {x})} : x \in S}

(***************************************************************************)
(* load_data.                                                              *)
(***************************************************************************)
\* The keys load_data subscripts in an entry of each kind
\* (next_booking_port is read with .get and may be absent).
PortKeys ==
    {"name", "current_empty", "capacity", "lstm_forecast", "storage_cost",
     "handling_cost", "lat", "lng"}

ContainerKeys == {"id", "type", "current_port", "dwell_time", "priority"}

RouteKeys == {"from", "to", "distance", "cost", "transit_time", "capacity"}

\* data.get(kind, [])
Declared(data, kind) == IF kind \in DOMAIN data THEN data[kind] ELSE <<>>

\* The number of entries a loop parses before one raises KeyError: all of them
\* when every entry has the keys.
ParsedCount(entries, keys) ==
    LET bad == {i \in 1..Len(entries) : ~(keys \subseteq DOMAIN entries[i])}
    IN IF bad = {} THEN Len(entries)
       ELSE (CHOOSE i \in bad : \A j \in bad : i <= j) - 1

\* Port(name=..., ...).  A JSON null forecast is carried by the flag
\* lstm_forecast_is_null of the entry, absent for a list.
ParsePort(e) ==
    [name |-> e.name, current_empty |-> e.current_empty, capacity |-> e.capacity,
     demand_forecast |-> e.lstm_forecast,
     forecast_is_null |-> "lstm_forecast_is_null" \in DOMAIN e,
     storage_cost_per_day |-> e.storage_cost]

\* Container(id=..., ...)
ParseContainer(e) == [id |-> e.id, type |-> e.type, current_port |-> e.current_port]

\* Route(from_port=..., ...)
ParseRoute(e) ==
    [from_port |-> e.from, to_port |-> e.to, distance_km |-> e.distance,
     transport_cost |-> e.cost, capacity_teu |-> e.capacity]

\* self.ports[name] = Port(...): a new key is appended to the dict's order, an
\* existing key keeps its position and gets the new value.
PutPort(ps, p) ==
    IF \E i \in 1..Len(ps) : ps[i].name = p.name
    THEN [i \in 1..Len(ps) |-> IF ps[i].name = p.name THEN p ELSE ps[i]]
    ELSE Append(ps, p)

RECURSIVE PutPorts(_, _)
PutPorts(ps, entries) ==
    IF entries = <<>> THEN ps
    ELSE PutPorts(PutPort(ps, Head(entries)), Tail(entries))

\* Mutant of LoadOutcome: a failed load restores the model it found.
LoadOutcomeRollingBack(ps, cs, rs, data) ==
    LET pe == Declared(data, "ports")
        ce == Declared(data, "containers")
        re == Declared(data, "routes")
        ok == /\ ParsedCount(pe, PortKeys) = Len(pe)
              /\ ParsedCount(ce, ContainerKeys) = Len(ce)
              /\ ParsedCount(re, RouteKeys) = Len(re)
    IN [ok |-> ok,
        ports |-> IF ok THEN PutPorts(ps, [i \in 1..Len(pe) |-> ParsePort(pe[i])]) ELSE ps,
        containers |-> IF ok THEN cs \o [i \in 1..Len(ce) |-> ParseContainer(ce[i])]
                       ELSE cs,
        routes |-> IF ok THEN rs \o [i \in 1..Len(re) |-> ParseRoute(re[i])] ELSE rs]

\* Mutant of LoadOutcome: a loop skips an entry that lacks a key and the call
\* still returns True.
LoadOutcomeSkippingBad(ps, cs, rs, data) ==
    LET good(entries, keys) ==
            SelectSeq(entries, LAMBDA e : keys \subseteq DOMAIN e)
        pe == good(Declared(data, "ports"), PortKeys)
        ce == good(Declared(data, "containers"), ContainerKeys)
        re == good(Declared(data, "routes"), RouteKeys)
    IN [ok |-> TRUE,
        ports |-> PutPorts(ps, [i \in 1..Len(pe) |-> ParsePort(pe[i])]),
        containers |-> cs \o [i \in 1..Len(ce) |-> ParseContainer(ce[i])],
        routes |-> rs \o [i \in 1..Len(re) |-> ParseRoute(re[i])]]

\* Mutant of LoadOutcome: the routes loop stops one entry short and the call
\* still returns True.
LoadOutcomeDroppingLast(ps, cs, rs, data) ==
    LET pe == Declared(data, "ports")
        ce == Declared(data, "containers")
        re == Declared(data, "routes")
        ok == /\ ParsedCount(pe, PortKeys) = Len(pe)
              /\ ParsedCount(ce, ContainerKeys) = Len(ce)
              /\ ParsedCount(re, RouteKeys) = Len(re)
    IN IF ok
       THEN [ok |-> TRUE,
             ports |-> PutPorts(ps, [i \in 1..Len(pe) |-> ParsePort(pe[i])]),
             containers |-> cs \o [i \in 1..Len(ce) |-> ParseContainer(ce[i])],
             routes |-> rs \o [i \in 1..(Len(re) - 1) |-> ParseRoute(re[i])]]
       ELSE [ok |-> FALSE, ports |-> ps, containers |-> cs, routes |-> rs]

\* load_data on an object holding ps, cs, rs: the three loops run in order and
\* the first KeyError ends the call with False, what was stored before it
\* staying in place.
LoadOutcome(ps, cs, rs, data) ==
    LET pe == Declared(data, "ports")
        ce == Declared(data, "containers")
        re == Declared(data, "routes")
        np == ParsedCount(pe, PortKeys)
        nc == IF np = Len(pe) THEN ParsedCount(ce, ContainerKeys) ELSE 0
        nr == IF np = Len(pe) /\ nc = Len(ce) THEN ParsedCount(re, RouteKeys) ELSE 0
    IN [ok |-> np = Len(pe) /\ nc = Len(ce) /\ nr = Len(re),
        ports |-> PutPorts(ps, [i \in 1..np |-> ParsePort(pe[i])]),
        containers |-> cs \o [i \in 1..nc |-> ParseContainer(ce[i])],
        routes |-> rs \o [i \in 1..nr |-> ParseRoute(re[i])]]

(***************************************************************************)
(* Lookups shared by the optimizers.                                       *)
(***************************************************************************)
port_names == [i \in 1..Len(ports) |-> ports[i].name]

PortNameSet == Range(port_names)

PortOf(name) == ports[CHOOSE i \in 1..Len(ports) : ports[i].name = name]

TypeSet == {containers[i].type : i \in 1..Len(containers)}

\* Mutant of FirstRoute: a later matching route replaces an earlier one.
LastRoute(f, t) ==
    LET hits == {i \in 1..Len(routes) :
                    routes[i].from_port = f /\ routes[i].to_port = t}
    IN IF hits = {} THEN 0 ELSE CHOOSE i \in hits : \A j \in hits : j <= i

\* for route in self.routes: if route.from_port == f and route.to_port == t: ... break
\* Index of the first matching route, 0 when there is none.
FirstRoute(f, t) ==
    LET hits == {i \in 1..Len(routes) :
                    routes[i].from_port = f /\ routes[i].to_port = t}
    IN IF hits = {} THEN 0 ELSE MinOf(hits)

RouteCost(f, t) ==
    IF FirstRoute(f, t) = 0 THEN DefaultRouteCost
    ELSE routes[FirstRoute(f, t)].transport_cost

RouteCapacity(f, t) ==
    IF FirstRoute(f, t) = 0 THEN DefaultRouteCapacity
    ELSE routes[FirstRoute(f, t)].capacity_teu

(***************************************************************************)
(* optimize_container_redistribution: the MILP the code builds.            *)
(* A point of the model is, per day t in 0..TimeHorizon-1, a flow value    *)
(* for every key <<from, to, type>> with from # to and a storage value     *)
(* for every key <<port, type>>.                                           *)
(***************************************************************************)
StorageKeys == PortNameSet \X TypeSet

FlowKeys == {k \in PortNameSet \X PortNameSet \X TypeSet : k[1] # k[2]}

\* len([c for c in self.containers if c.current_port == port and c.type == ctype])
current_inventory(port, ctype) ==
    Cardinality({i \in 1..Len(containers) :
                    containers[i].current_port = port /\ containers[i].type = ctype})

\* Mutant of lstm_demand: the forecast is not read at all.
lstm_demand_ignored(port, t) == 0

\* Mutant of lstm_demand: the demand of day t is read one element earlier.
lstm_demand_of_day_before(port, t) ==
    LET f == PortOf(port).demand_forecast
    IN IF t - 1 < Len(f) /\ t >= 1 THEN f[t] ELSE 0

\* lstm_demand = 0; if t < len(forecast): lstm_demand = forecast[t]
lstm_demand(port, t) ==
    LET f == PortOf(port).demand_forecast
    IN IF t < Len(f) THEN f[t + 1] ELSE 0

Inflow(fl, port, ctype) ==
    SumSet(fl, {k \in FlowKeys : k[2] = port /\ k[3] = ctype})

Outflow(fl, port, ctype) ==
    SumSet(fl, {k \in FlowKeys : k[1] = port /\ k[3] = ctype})

\* Mutant of ConservedStorage: the demand is subtracted on day 0 as well.
ConservedStorageEveryDay(t, before, inflow, outflow, demand) ==
    before + inflow - outflow - demand

\* Constraint 1 (flow conservation): the value the equality forces on
\* storage[port][ctype][t]; before is current_inventory on day 0 and
\* storage[port][ctype][t-1] afterwards.
ConservedStorage(t, before, inflow, outflow, demand) ==
    IF t = 0 THEN before + inflow - outflow
    ELSE before + inflow - outflow - demand

StorageAfter(t, prev, fl) ==
    [k \in StorageKeys |->
        ConservedStorage(t, prev[k], Inflow(fl, k[1], k[2]),
                         Outflow(fl, k[1], k[2]), lstm_demand(k[1], t))]

\* solver.IntVar(0, self.ports[port].capacity, ...)
StorageBoundsOK(s) ==
    \A k \in StorageKeys : 0 <= s[k] /\ s[k] <= PortOf(k[1]).capacity

\* Mutant of PortCapacityOK: constraint 2 is not added.
PortCapacityUnchecked(s) == TRUE

\* Constraint 2: total_storage <= self.ports[port].capacity
PortCapacityOK(s) ==
    \A p \in PortNameSet :
        SumSet(s, {k \in StorageKeys : k[1] = p}) <= PortOf(p).capacity

\* solver.IntVar(0, 1000, ...)
FlowBoundsOK(fl) ==
    \A k \in FlowKeys : 0 <= fl[k] /\ fl[k] <= FlowUpperBound

\* Constraint 3: total_flow <= route_capacity
RouteCapacityOK(fl) ==
    \A f \in PortNameSet : \A t \in PortNameSet :
        f # t =>
            SumSet(fl, {k \in FlowKeys : k[1] = f /\ k[2] = t}) <= RouteCapacity(f, t)

\* One day of a feasible point: prev is the storage of the day before (the
\* initial inventory for day 0), fl the day's flows.
DayFeasible(t, prev, fl) ==
    LET s == StorageAfter(t, prev, fl)
    IN FlowBoundsOK(fl) /\ RouteCapacityOK(fl) /\ StorageBoundsOK(s) /\ PortCapacityOK(s)

\* Mutant of DayCost: the storage terms are left out of the objective.
DayCostOfTransportOnly(fl, s) ==
    SumSet([k \in FlowKeys |-> RouteCost(k[1], k[2]) * fl[k]], FlowKeys)

\* The day's terms of the objective.
DayCost(fl, s) ==
    SumSet([k \in StorageKeys |-> PortOf(k[1]).storage_cost_per_day * s[k]], StorageKeys)
    + SumSet([k \in FlowKeys |-> RouteCost(k[1], k[2]) * fl[k]], FlowKeys)

\* Enumeration of the day's flows.  No feasible point has a larger flow on key k:
\* the variable bound and the route capacity cap it, and storage >= 0 caps the
\* outflow of a port by what it holds plus the most that can flow in.
FlowMax(t, prev, k) ==
    LET inMax == SumSet([o \in PortNameSet |->
                            Min2(FlowUpperBound, RouteCapacity(o, k[1]))],
                        PortNameSet \ {k[1]})
        held  == ConservedStorage(t, prev[<<k[1], k[3]>>], inMax, 0,
                                  lstm_demand(k[1], t))
    IN Min2(Min2(FlowUpperBound, RouteCapacity(k[1], k[2])), held)

RECURSIVE FlowChoices(_, _, _)
FlowChoices(t, prev, keys) ==
    IF keys = {} THEN {<<>>}
    ELSE LET k == CHOOSE x \in keys : TRUE
         IN UNION {{(k :> v) @@ g : g \in FlowChoices(t, prev, keys \ {k})} :
                      v \in 0..FlowMax(t, prev, k)}

DaySteps(t, prev) ==
    {fl \in FlowChoices(t, prev, FlowKeys) : DayFeasible(t, prev, fl)}

InitialInventory == [k \in StorageKeys |-> current_inventory(k[1], k[2])]

\* Layer t maps every storage state that some feasible prefix of days 0..t ends
\* in to the least cost of such a prefix, with the last steps (storage of the
\* day before, flows of day t) of the prefixes that reach that cost.
LayerAfter(t, L) ==
    LET arcs == UNION {{[from |-> prev, flow |-> fl, to |-> StorageAfter(t, prev, fl),
                         cost |-> L[prev].cost + DayCost(fl, StorageAfter(t, prev, fl))] :
                            fl \in DaySteps(t, prev)} : prev \in DOMAIN L}
    IN [s \in {a.to : a \in arcs} |->
          LET into == {a \in arcs : a.to = s}
              best == MinOf({a.cost : a \in into})
          IN [cost |-> best, last |-> {a \in into : a.cost = best}]]

RECURSIVE Layers(_)
\* <<layer before day 0, layer 0, ..., layer t>>
Layers(t) ==
    IF t < 0 THEN <<(InitialInventory :> [cost |-> 0, last |-> {}])>>
    ELSE LET ls == Layers(t - 1) IN Append(ls, LayerAfter(t, ls[Len(ls)]))

RECURSIVE OptimalPrefixes(_, _, _)
\* The prefixes of days 0..t that end in storage state s at the least cost;
\* a prefix is a sequence of [flow, storage] records, one per day.
OptimalPrefixes(ls, t, s) ==
    IF t < 0 THEN {<<>>}
    ELSE UNION {{Append(p, [flow |-> a.flow, storage |-> s]) :
                    p \in OptimalPrefixes(ls, t - 1, a.from)} :
                  a \in ls[t + 2][s].last}

\* solver.Solve(): the set of optimal points; empty when the model is infeasible.
OptimalPoints ==
    LET ls   == Layers(TimeHorizon - 1)
        last == ls[TimeHorizon + 1]
    IN IF DOMAIN last = {} THEN {}
       ELSE LET best == MinOf({last[s].cost : s \in DOMAIN last})
            IN UNION {OptimalPrefixes(ls, TimeHorizon - 1, s) :
                         s \in {x \in DOMAIN last : last[x].cost = best}}

\* solver.Objective().Value()
ObjectiveValue(pt) ==
    SumSeq([i \in 1..Len(pt) |-> DayCost(pt[i].flow, pt[i].storage)])

\* Mutant of ExceptionResult: the exception leaves the optimizer uncaught.
ExceptionPropagates(message) == [raised |-> message]

\* except Exception as e: ... "error": str(e)
ExceptionResult(message) == [error |-> message]

\* len(self.ports[port].demand_forecast) raises TypeError when the payload gave
\* lstm_forecast as null; the constraint loop reaches it for t = 1 as soon as
\* there is a port with such a forecast and at least one container type.
RedistributionRaises ==
    /\ TypeSet # {}
    /\ \E i \in 1..Len(ports) : ports[i].forecast_is_null

\* Mutant of _create_fallback_solution: the status of a solved plan is reused.
_create_fallback_solution_as_optimal ==
    [status |-> "optimal",
     relocations |-> <<>>,
     recommendations |-> <<"Optimization solver failed - using simple heuristics",
                           "Consider manual review of container distribution",
                           "Check data quality and constraints">>]

_create_fallback_solution ==
    [status |-> "fallback",
     relocations |-> <<>>,
     recommendations |-> <<"Optimization solver failed - using simple heuristics",
                           "Consider manual review of container distribution",
                           "Check data quality and constraints">>]

\* The (from, to, type, day) tuples in the order of the extraction loops.
RelocationSlots(container_types) ==
    LET n == Len(port_names)
        m == Len(container_types)
        slot(x) == [from_port |-> port_names[(x \div (n * m * TimeHorizon)) + 1],
                    to_port   |-> port_names[((x \div (m * TimeHorizon)) % n) + 1],
                    ctype     |-> container_types[((x \div TimeHorizon) % m) + 1],
                    t         |-> x % TimeHorizon]
    IN [x \in 1..(n * n * m * TimeHorizon) |-> slot(x - 1)]

\* Mutant of Relocations: a relocation is appended for every flow variable.
RelocationsWithZeroFlows(pt, container_types) ==
    LET slots == RelocationSlots(container_types)
        flow_value(sl) == pt[sl.t + 1].flow[<<sl.from_port, sl.to_port, sl.ctype>>]
        moved(sl) == sl.from_port # sl.to_port
        kept == SelectSeq(slots, moved)
    IN [x \in 1..Len(kept) |->
          [from_port      |-> kept[x].from_port,
           to_port        |-> kept[x].to_port,
           container_type |-> kept[x].ctype,
           quantity       |-> flow_value(kept[x]),
           day            |-> kept[x].t + 1,
           priority       |-> IF kept[x].t <= 2 THEN "high" ELSE "medium"]]

Relocations(pt, container_types) ==
    LET slots == RelocationSlots(container_types)
        flow_value(sl) == pt[sl.t + 1].flow[<<sl.from_port, sl.to_port, sl.ctype>>]
        moved(sl) == sl.from_port # sl.to_port /\ flow_value(sl) > 0
        kept == SelectSeq(slots, moved)
    IN [x \in 1..Len(kept) |->
          [from_port      |-> kept[x].from_port,
           to_port        |-> kept[x].to_port,
           container_type |-> kept[x].ctype,
           quantity       |-> flow_value(kept[x]),
           day            |-> kept[x].t + 1,
           priority       |-> IF kept[x].t <= 2 THEN "high" ELSE "medium"]]

\* Advisory strings, kept as records of what each string reports.
_generate_recommendations(solution) ==
    LET rel == solution.relocations
        urgent == SelectSeq(rel, LAMBDA r : r.priority = "high")
    IN (IF rel # <<>> /\ urgent # <<>>
        THEN <<[text |-> "urgent relocations needed within 3 days", n |-> Len(urgent)]>>
        ELSE <<>>)
       \o (IF rel # <<>>
           THEN <<[text |-> "Total optimized movements", n |-> Len(rel)]>>
           ELSE <<>>)
       \o <<[text |-> "Estimated total cost", n |-> solution.total_cost]>>

_extract_redistribution_solution(pt, container_types) ==
    LET solution ==
            [status |-> "optimal",
             total_cost |-> ObjectiveValue(pt),
             relocations |-> Relocations(pt, container_types),
             storage_plan |->
                 [p \in PortNameSet |->
                     [c \in TypeSet |->
                         [t \in 1..TimeHorizon |-> pt[t].storage[<<p, c>>]]]]]
    IN solution @@ [recommendations |-> _generate_recommendations(solution)]

\* Mutant of RedistributionOutcomes: a solve that is not optimal is repeated
\* before the error is returned.
RedistributionOutcomesSolvingAgain(available) ==
    IF ~available
    THEN {[path |-> "unavailable", solves |-> 0, point |-> <<>>,
           value |-> [error |-> "SCIP solver not available"]]}
    ELSE IF RedistributionRaises
    THEN {[path |-> "exception", solves |-> 0, point |-> <<>>,
           value |-> ExceptionResult("object of type 'NoneType' has no len()")
                        @@ [fallback_solution |-> _create_fallback_solution]]}
    ELSE LET points == OptimalPoints
         IN IF points = {}
            THEN {[path |-> "non_optimal", solves |-> 2, point |-> <<>>,
                   value |-> [error |-> "Optimization failed with status: INFEASIBLE",
                              fallback_solution |-> _create_fallback_solution]]}
            ELSE {[path |-> "optimal", solves |-> 1, point |-> pt,
                   value |-> _extract_redistribution_solution(pt, ct)] :
                      pt \in points, ct \in Perms(TypeSet)}

\* The objects optimize_container_redistribution can return, each with the path
\* that produced it, the number of solver.Solve() calls and the point the solver
\* returned.  available: whether CreateSolver('SCIP') gave a solver.
RedistributionOutcomes(available) ==
    IF ~available
    THEN {[path |-> "unavailable", solves |-> 0, point |-> <<>>,
           value |-> [error |-> "SCIP solver not available"]]}
    ELSE IF RedistributionRaises
    THEN {[path |-> "exception", solves |-> 0, point |-> <<>>,
           value |-> ExceptionResult("object of type 'NoneType' has no len()")
                        @@ [fallback_solution |-> _create_fallback_solution]]}
    ELSE LET points == OptimalPoints
         IN IF points = {}
            THEN {[path |-> "non_optimal", solves |-> 1, point |-> <<>>,
                   value |-> [error |-> "Optimization failed with status: INFEASIBLE",
                              fallback_solution |-> _create_fallback_solution]]}
            ELSE {[path |-> "optimal", solves |-> 1, point |-> pt,
                   value |-> _extract_redistribution_solution(pt, ct)] :
                      pt \in points, ct \in Perms(TypeSet)}

(***************************************************************************)
(* optimize_vehicle_routing.                                               *)
(***************************************************************************)
\* Mutant of distance_callback: the depot arcs cost like unknown routes.
distance_callback_depot_penalty(relocations, from_node, to_node) ==
    IF from_node = 0 \/ to_node = 0 THEN UnknownRouteDistance
    ELSE LET hit == FirstRoute(relocations[from_node].from_port,
                               relocations[to_node].to_port)
         IN IF hit = 0 THEN UnknownRouteDistance
            ELSE routes[hit].distance_km \div Tenths

\* distance_callback, on node numbers: node 0 is the depot, node k > 0 is
\* relocations[k].  int(route.distance_km) drops the fraction of a kilometre.
distance_callback(relocations, from_node, to_node) ==
    IF from_node = 0 \/ to_node = 0 THEN 0
    ELSE LET hit == FirstRoute(relocations[from_node].from_port,
                               relocations[to_node].to_port)
         IN IF hit = 0 THEN UnknownRouteDistance
            ELSE routes[hit].distance_km \div Tenths

\* demand_callback
demand_callback(relocations, from_node) ==
    IF from_node = 0 THEN 0 ELSE relocations[from_node].container_count

\* Mutant of CapacityDimensionOK: the dimension is not added to the model.
CapacityDimensionMissing(relocations, order) == TRUE

\* The 'Capacity' dimension: the cumul variable is 0 at the start, grows by the
\* demand of each node left (slack 0) and stays within [0, vehicle capacity] at
\* every node of the route, the end included.
CapacityDimensionOK(relocations, order) ==
    \A k \in 1..Len(order) :
        LET cumul == SumSeq([x \in 1..k |-> demand_callback(relocations, order[x])])
        IN 0 <= cumul /\ cumul <= VehicleCapacity

\* Mutant of RoutingSolutions: the solver may leave tasks out of the route.
RoutingSolutionsDroppingTasks(relocations) ==
    UNION {{order \in Perms(S) : CapacityDimensionOK(relocations, order)} :
              S \in SUBSET (1..Len(relocations))}

\* routing.SolveWithParameters: the vehicle visits every node once; the orders of
\* the task nodes that the solver may return, none when the set is empty.
RoutingSolutions(relocations) ==
    {order \in Perms(1..Len(relocations)) : CapacityDimensionOK(relocations, order)}

\* solution.ObjectiveValue(): the arc costs along depot, order, depot.
RouteCostOf(relocations, order) ==
    LET path == <<0>> \o order \o <<0>>
    IN SumSeq([x \in 1..(Len(path) - 1) |->
                  distance_callback(relocations, path[x], path[x + 1])])

_extract_routing_solution(relocations, order) ==
    [total_distance |-> RouteCostOf(relocations, order),
     routes |-> <<[x \in 1..Len(order) |-> relocations[order[x]]]>>]

\* The model handed to the routing solver: the arc costs and node demands that
\* the two callbacks yield over the nodes 0..len(relocations).
RoutingModel(relocations) ==
    LET nodes == 0..Len(relocations)
    IN [cost |-> [e \in nodes \X nodes |-> distance_callback(relocations, e[1], e[2])],
        demand |-> [k \in nodes |-> demand_callback(relocations, k)]]

\* Mutant of RoutingOutcomes: when the solve finds nothing the call solves again
\* without the capacity dimension and returns that route.
RoutingOutcomesWithRetry(relocations) ==
    IF relocations = <<>>
    THEN {[path |-> "empty", order |-> <<>>, solves |-> 0,
           value |-> [routes |-> <<>>, total_cost |-> 0, total_distance |-> 0]]}
    ELSE IF RoutingSolutions(relocations) = {}
    THEN {[path |-> "solved", order |-> order, solves |-> 2,
           value |-> _extract_routing_solution(relocations, order)] :
              order \in Perms(1..Len(relocations))}
    ELSE {[path |-> "solved", order |-> order, solves |-> 1,
           value |-> _extract_routing_solution(relocations, order)] :
              order \in RoutingSolutions(relocations)}

\* The objects optimize_vehicle_routing can return, each with the path that
\* produced it, the solver's route and the number of SolveWithParameters calls.
RoutingOutcomes(relocations) ==
    IF relocations = <<>>
    THEN {[path |-> "empty", order |-> <<>>, solves |-> 0,
           value |-> [routes |-> <<>>, total_cost |-> 0, total_distance |-> 0]]}
    ELSE IF RoutingSolutions(relocations) = {}
    THEN {[path |-> "no_solution", order |-> <<>>, solves |-> 1,
           value |-> [error |-> "No solution found for vehicle routing"]]}
    ELSE {[path |-> "solved", order |-> order, solves |-> 1,
           value |-> _extract_routing_solution(relocations, order)] :
              order \in RoutingSolutions(relocations)}

(***************************************************************************)
(* optimize_assignment.                                                    *)
(***************************************************************************)
\* compatibility_map.get(container_type, [])
compatibility_map(container_type) ==
    CASE container_type = "20GP" -> {"20GP"}
      [] container_type = "40GP" -> {"40GP", "40HC"}
      [] container_type = "40HC" -> {"40HC", "40GP"}
      [] OTHER -> {}

\* Mutant of _is_compatible: a type satisfies exactly itself.
_is_compatible_same_type(container_type, required_type) ==
    container_type = required_type

_is_compatible(container_type, required_type) ==
    required_type \in compatibility_map(container_type)

\* Mutant of _calculate_assignment_cost: the urgency term is added.
_calculate_assignment_cost_urgency_added(container, demand) ==
    LET hit == FirstRoute(container.current_port, demand.port)
        distance_cost == IF hit = 0 THEN 0 ELSE routes[hit].transport_cost
        type_penalty == IF _is_compatible(container.type, demand.required_type)
                        THEN 0 ELSE TypePenalty
    IN BaseCost + distance_cost + type_penalty + demand.priority * UrgencyWeight

_calculate_assignment_cost(container, demand) ==
    LET hit == FirstRoute(container.current_port, demand.port)
        distance_cost == IF hit = 0 THEN 0 ELSE routes[hit].transport_cost
        type_penalty == IF _is_compatible(container.type, demand.required_type)
                        THEN 0 ELSE TypePenalty
        urgency_bonus == -(IF "priority" \in DOMAIN demand THEN demand.priority ELSE 0)
                            * UrgencyWeight
    IN BaseCost + distance_cost + type_penalty + urgency_bonus

\* container['current_port'], container['type'], demand['port'] and
\* demand['required_type'] raise KeyError on a dict without the key.
AssignmentRaises(cs, ds) ==
    \/ \E i \in 1..Len(cs) : ~({"current_port", "type"} \subseteq DOMAIN cs[i])
    \/ \E j \in 1..Len(ds) : ~({"port", "required_type"} \subseteq DOMAIN ds[j])

\* Mutant of AssignmentFeasible: the type compatibility constraints are not added.
AssignmentFeasibleAnyType(cs, ds, x) ==
    /\ \A i \in 1..Len(cs) : Cardinality({pr \in x : pr[1] = i}) <= 1
    /\ \A j \in 1..Len(ds) : Cardinality({pr \in x : pr[2] = j}) <= 1

\* The constraints of the assignment model on the set x of pairs <<i, j>> with
\* x[i][j] = 1.
AssignmentFeasible(cs, ds, x) ==
    /\ \A i \in 1..Len(cs) : Cardinality({pr \in x : pr[1] = i}) <= 1
    /\ \A j \in 1..Len(ds) : Cardinality({pr \in x : pr[2] = j}) <= 1
    /\ \A pr \in x : _is_compatible(cs[pr[1]].type, ds[pr[2]].required_type)

AssignmentObjective(cs, ds, x) ==
    SumSet([pr \in x |-> _calculate_assignment_cost(cs[pr[1]], ds[pr[2]])], x)

\* solver.Solve(): the optimal points of the assignment model (x = {} is
\* feasible, so the set is never empty).
\* Mutant of AssignmentSolutions: the solver stops at any feasible point.
AssignmentSolutionsAnyFeasible(cs, ds) ==
    {x \in SUBSET ((1..Len(cs)) \X (1..Len(ds))) : AssignmentFeasible(cs, ds, x)}

\* Mutant of AssignmentSolutions: the solver prefers a larger matching to a
\* cheaper one.
AssignmentSolutionsMostPairs(cs, ds) ==
    LET feasible == {x \in SUBSET ((1..Len(cs)) \X (1..Len(ds))) :
                        AssignmentFeasible(cs, ds, x)}
    IN {x \in feasible : \A y \in feasible : Cardinality(y) <= Cardinality(x)}

AssignmentSolutions(cs, ds) ==
    LET feasible == {x \in SUBSET ((1..Len(cs)) \X (1..Len(ds))) :
                        AssignmentFeasible(cs, ds, x)}
        best == MinOf({AssignmentObjective(cs, ds, x) : x \in feasible})
    IN {x \in feasible : AssignmentObjective(cs, ds, x) = best}

\* The pairs of x in the order of the extraction loops (i outer, j inner).
PairsInOrder(x, n, m) ==
    LET slots == [k \in 1..(n * m) |-> <<((k - 1) \div m) + 1, ((k - 1) % m) + 1>>]
    IN SelectSeq(slots, LAMBDA pr : pr \in x)

\* Mutant of NotAssigned: the item at the first assigned index is left in.
NotAssignedButFirst(items, assigned) ==
    LET drop == assigned \ {MinOf(assigned \cup {Len(items) + 1})}
        left == SelectSeq([i \in 1..Len(items) |-> i], LAMBDA i : i \notin drop)
    IN [k \in 1..Len(left) |-> items[left[k]]]

\* [items[i] for i in range(len(items)) if i not in assigned]
NotAssigned(items, assigned) ==
    LET left == SelectSeq([i \in 1..Len(items) |-> i], LAMBDA i : i \notin assigned)
    IN [k \in 1..Len(left) |-> items[left[k]]]

_extract_assignment_solution(cs, ds, x) ==
    LET chosen == PairsInOrder(x, Len(cs), Len(ds))
        assigned_containers == {pr[1] : pr \in x}
        assigned_demands == {pr[2] : pr \in x}
    IN [assignments |->
           [k \in 1..Len(chosen) |->
              LET container == cs[chosen[k][1]]
                  demand == ds[chosen[k][2]]
              IN [container_id |-> container.id,
                  demand_id |-> demand.id,
                  from_port |-> container.current_port,
                  to_port |-> demand.port,
                  container_type |-> container.type,
                  cost |-> _calculate_assignment_cost(container, demand)]],
        unassigned_containers |-> NotAssigned(cs, assigned_containers),
        unmet_demands |-> NotAssigned(ds, assigned_demands),
        total_cost |-> AssignmentObjective(cs, ds, x)]

\* container['id'] and demand['id'] raise KeyError while the assigned pairs of
\* x are written out.
ExtractionRaises(cs, ds, x) ==
    \E pr \in x : ~("id" \in DOMAIN cs[pr[1]]) \/ ~("id" \in DOMAIN ds[pr[2]])

\* The objects optimize_assignment can return, each with the path that produced
\* it, the number of Solve calls and, when solved, the solver's point.
\* available: whether CreateSolver('SCIP') gave a solver.
AssignmentOutcomes(cs, ds, available) ==
    IF cs = <<>> \/ ds = <<>>
    THEN {[path |-> "short_circuit", x |-> {}, solves |-> 0,
           value |-> [assignments |-> <<>>, unassigned_containers |-> cs]]}
    ELSE IF ~available
    THEN {[path |-> "unavailable", x |-> {}, solves |-> 0,
           value |-> [error |-> "Assignment solver not available"]]}
    ELSE IF AssignmentRaises(cs, ds)
    THEN {[path |-> "exception", x |-> {}, solves |-> 0,
           value |-> ExceptionResult("KeyError")]}
    ELSE {IF ExtractionRaises(cs, ds, x)
          THEN [path |-> "exception", x |-> x, solves |-> 1,
                value |-> ExceptionResult("KeyError")]
          ELSE [path |-> "optimal", x |-> x, solves |-> 1,
                value |-> _extract_assignment_solution(cs, ds, x)] :
             x \in AssignmentSolutions(cs, ds)}

(***************************************************************************)
(* The state machine.                                                      *)
(***************************************************************************)
NoCall == [op |-> "none"]

NoInput == [absent |-> TRUE]

Init ==
    /\ ports = <<>>
    /\ containers = <<>>
    /\ routes = <<>>
    /\ pc = "new"
    /\ input_data = NoInput
    /\ history = <<>>
    /\ call = NoCall
    /\ result = <<>>
    /\ previous = NoCall
    /\ stdout = <<>>
    /\ stderr = <<>>
    /\ exit_code = -1

\* main: open(sys.argv[1]) or json.load raises; the handler prints the error
\* object to standard error and exits 1.
MainRaises ==
    /\ pc = "new"
    /\ stderr' = Append(stderr, [json |-> ExceptionResult("No such file or directory")])
    /\ exit_code' = 1
    /\ pc' = "exited"
    /\ UNCHANGED <<ports, containers, routes, input_data, history, call, result, previous,
                   stdout>>

\* load_data(data), at any time in the life of the object; on failure the cause
\* is printed to standard error as a plain line.
LoadData(data) ==
    /\ pc \in {"new", "loaded", "failed", "done"}
    /\ LET o == LoadOutcome(ports, containers, routes, data)
       IN /\ ports' = o.ports
          /\ containers' = o.containers
          /\ routes' = o.routes
          /\ pc' = IF o.ok THEN "loaded" ELSE "failed"
          /\ stderr' = IF o.ok THEN stderr
                       ELSE Append(stderr, [line |-> "Error loading data"])
    /\ input_data' = data
    /\ history' = Append(history, data)
    /\ UNCHANGED <<call, result, previous, stdout, exit_code>>

\* Mutant of OptimizeRedistribution: the call consumes self.containers.
OptimizeRedistributionClearing ==
    /\ pc \in {"loaded", "done"}
    /\ \E available \in BOOLEAN :
         \E o \in RedistributionOutcomes(available) :
            /\ call' = [op |-> "redistribution", path |-> o.path, solves |-> o.solves,
                        point |-> o.point]
            /\ result' = o.value
    /\ containers' = <<>>
    /\ previous' = IF call = NoCall THEN NoCall ELSE [call |-> call, result |-> result]
    /\ pc' = "done"
    /\ UNCHANGED <<ports, routes, input_data, history, stdout, stderr, exit_code>>

\* optimize_container_redistribution(); no optimizer assigns an attribute of self.
OptimizeRedistribution ==
    /\ pc \in {"loaded", "done"}
    /\ \E available \in BOOLEAN :
         \E o \in RedistributionOutcomes(available) :
            /\ call' = [op |-> "redistribution", path |-> o.path, solves |-> o.solves,
                        point |-> o.point]
            /\ result' = o.value
            \* print("Starting OR-Tools optimization ...") precedes solver.Solve()
            /\ stdout' = IF o.solves > 0
                         THEN Append(stdout, [line |-> "Starting OR-Tools optimization"])
                         ELSE stdout
            /\ stderr' = IF o.path = "exception"
                         THEN Append(stderr, [line |-> "Error in optimization"])
                         ELSE stderr
    /\ previous' = IF call = NoCall THEN NoCall ELSE [call |-> call, result |-> result]
    /\ pc' = "done"
    /\ UNCHANGED <<ports, containers, routes, input_data, history, exit_code>>

\* The routing solver is deterministic: solving the model it solved in the last
\* call gives the route it gave then.
OptimizeVehicleRouting(relocations) ==
    /\ pc \in {"loaded", "done"}
    /\ \E o \in RoutingOutcomes(relocations) :
          /\ (call.op = "routing" /\ call.path = "solved"
                 /\ call.model = RoutingModel(relocations)) => o.order = call.order
          /\ call' = [op |-> "routing", path |-> o.path, solves |-> o.solves,
                      relocations |-> relocations, order |-> o.order,
                      model |-> RoutingModel(relocations)]
          /\ result' = o.value
    /\ previous' = IF call = NoCall THEN NoCall ELSE [call |-> call, result |-> result]
    /\ pc' = "done"
    /\ UNCHANGED <<ports, containers, routes, input_data, history, stdout, stderr,
                   exit_code>>

OptimizeAssignment(cs, ds) ==
    /\ pc \in {"loaded", "done"}
    /\ \E available \in BOOLEAN :
          \E o \in AssignmentOutcomes(cs, ds, available) :
             /\ call' = [op |-> "assignment", path |-> o.path, solves |-> o.solves,
                         containers |-> cs, demands |-> ds, x |-> o.x]
             /\ result' = o.value
             /\ stderr' = IF o.path = "exception"
                          THEN Append(stderr, [line |-> "Error in assignment optimization"])
                          ELSE stderr
    /\ previous' = IF call = NoCall THEN NoCall ELSE [call |-> call, result |-> result]
    /\ pc' = "done"
    /\ UNCHANGED <<ports, containers, routes, input_data, history, stdout, exit_code>>

\* input_data.get('optimization_type', 'redistribution')
optimization_type ==
    IF "optimization_type" \in DOMAIN input_data THEN input_data.optimization_type
    ELSE "redistribution"

\* main: no branch matches optimization_type; the result is an error object and
\* no optimizer is called.
UnknownOptimizationType ==
    /\ pc = "loaded"
    /\ optimization_type \notin {"redistribution", "routing", "assignment"}
    /\ call' = [op |-> "unknown", path |-> "unknown_type", solves |-> 0]
    /\ result' = [error |-> "Unknown optimization type"]
    /\ previous' = IF call = NoCall THEN NoCall ELSE [call |-> call, result |-> result]
    /\ pc' = "done"
    /\ UNCHANGED <<ports, containers, routes, input_data, history, stdout, stderr,
                   exit_code>>

\* Mutant of Exit: an error object goes to standard error and the status is 1.
ExitFailingOnError ==
    /\ pc \in {"failed", "done"}
    /\ LET failed == pc = "failed" \/ "error" \in DOMAIN result
           printed == IF pc = "failed"
                      THEN [json |-> [error |-> "Failed to load input data"]]
                      ELSE [json |-> result]
       IN /\ stdout' = IF failed /\ pc = "done" THEN stdout ELSE Append(stdout, printed)
          /\ stderr' = IF failed /\ pc = "done" THEN Append(stderr, printed) ELSE stderr
          /\ exit_code' = IF failed THEN 1 ELSE 0
    /\ pc' = "exited"
    /\ UNCHANGED <<ports, containers, routes, input_data, history, call, result, previous>>

\* main after a failed load: the error object goes to standard output, exit 1.
\* main after the optimizer returned: print(json.dumps(result, indent=2)), and
\* the process ends with status 0.
Exit ==
    /\ pc \in {"failed", "done"}
    /\ stdout' = Append(stdout,
                    IF pc = "failed"
                    THEN [json |-> [error |-> "Failed to load input data"]]
                    ELSE [json |-> result])
    /\ exit_code' = IF pc = "failed" THEN 1 ELSE 0
    /\ pc' = "exited"
    /\ UNCHANGED <<ports, containers, routes, input_data, history, call, result, previous,
                   stderr>>

(***************************************************************************)
(* Inputs.                                                                 *)
(***************************************************************************)
MaxContainers == 2
MaxTasks == 3
MaxDemands == 2

\* Entries of the payload, with the keys of the JSON objects; dist is in tenths of
\* a kilometre.
PortData(n, empty, cap, fc, sc) ==
    [name |-> n, current_empty |-> empty, capacity |-> cap, lstm_forecast |-> fc,
     storage_cost |-> sc, handling_cost |-> 0, lat |-> 0, lng |-> 0]

ContainerData(i, ty, at) ==
    [id |-> i, type |-> ty, current_port |-> at, dwell_time |-> 0, priority |-> 1]

RouteData(f, t, dist, cost, cap) ==
    [from |-> f, to |-> t, distance |-> dist, cost |-> cost, transit_time |-> 0,
     capacity |-> cap]

Payload(ps, cs, rs) == [ports |-> ps, containers |-> cs, routes |-> rs]

Zero7 == <<0, 0, 0, 0, 0, 0, 0>>

\* Container lists c1..cn, n <= MaxContainers, of the given types at the given ports.
ContainerLists(types, at) ==
    UNION {{[i \in 1..n |-> ContainerData(i, ty[i], loc[i])] :
               ty \in [1..n -> types], loc \in [1..n -> at]} :
           n \in 0..MaxContainers}

\* Two small ports with cheap and scarce routes between them.
SmallPayloads ==
    {Payload(<<PortData("A", 0, ca, fa, 2), PortData("B", 0, 2, fb, cb)>>, cs, rs) :
        ca \in {1, 2},
        fa \in {Zero7, <<1, 1, 0, 0, 0, 0, 0>>},
        fb \in {Zero7, <<0, -1, 0, 0, 0, 0, 0>>},
        cb \in {0, 3},
        cs \in ContainerLists({"20GP"}, {"A", "B"}),
        rs \in {<<RouteData("A", "B", 10, 10, 1), RouteData("B", "A", 10, 10, 1)>>,
                <<RouteData("A", "B", 10, 1, 2)>>}}

\* Two container types that compete for the capacity of port A; c2 may sit at a
\* port the payload does not declare.
MixedPayloads ==
    {Payload(<<PortData("A", 0, ca, Zero7, 2), PortData("B", 0, 2, Zero7, 1)>>,
             <<ContainerData(1, "20GP", "A"), ContainerData(2, "40GP", at)>>,
             <<RouteData("A", "B", 25, 3, cr), RouteData("B", "A", 30, 3, 0)>>) :
        ca \in {1, 2}, at \in {"A", "X"}, cr \in {0, 1}}

\* Port B consumes d containers on day 1 that only A can supply, over the pair
\* A -> B for which no route is declared.
BulkPayloads ==
    {Payload(<<PortData("A", 0, 150, <<0, -120, 0, 0, 0, 0, 0>>, 1),
               PortData("B", 0, 150, <<0, d, 0, 0, 0, 0, 0>>, 1)>>,
             <<ContainerData(1, "20GP", "A")>>,
             <<RouteData("B", "A", 10, 5, 0)>>) :
        d \in {100, 101, 102}}

\* lstm_forecast: null in the payload.
NullForecastPayloads ==
    {Payload(<<PortData("A", 0, 2, Zero7, 1),
               PortData("B", 0, 2, <<>>, 1) @@ [lstm_forecast_is_null |-> TRUE]>>,
             cs, <<>>) :
        cs \in {<<>>, <<ContainerData(1, "20GP", "X")>>}}

\* The two-port scenario of the documentation: no containers are declared.
ScenarioPayload ==
    Payload(<<PortData("A", 20, 100, <<5, 5, 5, 5, 5, 5, 5>>, 1),
              PortData("B", 5, 100, <<-10, -10, -10, -10, -10, -10, -10>>, 1)>>,
            <<>>,
            <<RouteData("A", "B", 105, 10, 50)>>)

\* Port B consumes one container on day 1 and one on day 5; holding a container
\* is cheaper at A, so the second one travels late.
LatePayloads ==
    {Payload(<<PortData("A", 0, 2, Zero7, 1),
               PortData("B", 0, 2, <<0, 1, 0, 0, 0, 1, 0>>, 3)>>,
             <<ContainerData(1, "20GP", "A"), ContainerData(2, "20GP", "A")>>,
             <<RouteData("A", "B", 10, 1, cr), RouteData("B", "A", 10, 1, 0)>>) :
        cr \in {1, 2}}

\* One container of each of two types at A; A consumes one container of every
\* type on day 1 and B may return one of every type on day 2.
TwoTypePayloads ==
    {Payload(<<PortData("A", 0, 2, <<0, 1, 0, 0, 0, 0, 0>>, 1),
               PortData("B", 0, 2, fb, 1)>>,
             <<ContainerData(1, "20GP", "A"), ContainerData(2, "40GP", "A")>>,
             <<RouteData("A", "B", 10, 1, 1), RouteData("B", "A", 10, 1, 0)>>) :
        fb \in {Zero7, <<0, 0, -1, 0, 0, 0, 0>>}}

\* A forecast of two elements only: B consumes one container on day 1, or two,
\* which the single container cannot serve.
ShortForecastPayloads ==
    {Payload(<<PortData("A", 0, 2, Zero7, 1), PortData("B", 0, 2, <<0, fb>>, 3)>>,
             cs,
             <<RouteData("A", "B", 10, 1, 1), RouteData("B", "A", 10, 1, 0)>>) :
        fb \in {1, 2},
        cs \in {<<ContainerData(1, "20GP", "A")>>, <<ContainerData(1, "20GP", "B")>>}}

\* No port, or a single one.
FewPortPayloads ==
    {Payload(ps, cs, <<>>) :
        ps \in {<<>>, <<PortData("A", 0, 1, <<0, 1, 0, 0, 0, 0, 0>>, 1)>>},
        cs \in ContainerLists({"20GP"}, {"A"})}

RedistributionPayloads ==
    SmallPayloads \cup MixedPayloads \cup BulkPayloads \cup NullForecastPayloads
        \cup {ScenarioPayload} \cup FewPortPayloads \cup LatePayloads
        \cup TwoTypePayloads \cup ShortForecastPayloads

\* Relocation batches for routing.
RelocationLists ==
    UNION {[1..n -> {[from_port |-> e[1], to_port |-> e[2], container_count |-> k] :
                        e \in {<<"A", "B">>, <<"B", "A">>}, k \in {30, 70, 101}}] :
           n \in 0..MaxTasks}

\* Container dicts for assignment; the last two lists hold a dict without 'type'
\* and a dict without 'id'.
AssignmentContainerLists ==
    ContainerLists({"20GP", "40GP", "40HC", "45HC"}, {"A"})
        \cup {<<[id |-> 1, current_port |-> "A"]>>,
              <<[type |-> "20GP", current_port |-> "A"]>>}

\* Demand dicts for assignment, all at port B: (required type, priority).
DemandKinds ==
    {<<"20GP", 1>>, <<"20GP", 4>>, <<"40HC", 4>>, <<"45HC", 4>>, <<"40GP", 300>>}

DemandLists ==
    UNION {{[j \in 1..m |-> [id |-> j, port |-> "B", required_type |-> kind[j][1],
                             priority |-> kind[j][2]]] :
               kind \in [1..m -> DemandKinds]} :
           m \in 0..MaxDemands}

\* One payload per set of routes: A -> B only, none, both directions.
CorePayloads ==
    {ScenarioPayload}
        \cup {d \in NullForecastPayloads : d.containers # <<>>}
        \cup {d \in MixedPayloads :
                 /\ d.ports[1].capacity = 1
                 /\ d.containers[2].current_port = "A"
                 /\ d.routes[1].capacity = 0}

Next ==
    \/ pc = "new" /\ \E data \in CorePayloads : LoadData(data)
    \/ pc = "loaded" /\ OptimizeRedistribution
    \/ /\ pc = "loaded"
       /\ \E relocations \in RelocationLists : OptimizeVehicleRouting(relocations)
    \/ /\ pc = "loaded"
       /\ \E cs \in AssignmentContainerLists : \E ds \in DemandLists :
             OptimizeAssignment(cs, ds)

Spec == Init /\ [][Next]_vars

NextRedistribution ==
    \/ pc = "new" /\ \E data \in RedistributionPayloads : LoadData(data)
    \/ pc = "loaded" /\ OptimizeRedistribution

SpecRedistribution == Init /\ [][NextRedistribution]_vars

\* Payloads for load_data: each key present or not, and lists in which one entry
\* lacks a key that load_data subscripts.
Without(e, key) == [k \in DOMAIN e \ {key} |-> e[k]]

LoadPayloads ==
    LET pA == PortData("A", 0, 2, <<0, 1, 0, 0, 0, 0, 0>>, 1)
        c1 == ContainerData(1, "20GP", "A")
        c2 == ContainerData(2, "40GP", "A")
        r1 == RouteData("A", "B", 10, 3, 1)
        r2 == RouteData("A", "B", 20, 5, 2)
        ps == {<<>>, <<pA>>, <<pA, Without(pA, "lng")>>,
               <<Without(pA, "lstm_forecast"), pA>>}
        cs == {<<>>, <<c1, c2>>, <<c1, Without(c2, "priority")>>,
               <<Without(c1, "type"), c2>>}
        rs == {<<r1, r2>>, <<r1, Without(r2, "transit_time")>>,
               <<Without(r1, "from"), r2>>}
    IN {[k \in keys |-> IF k = "ports" THEN p ELSE IF k = "containers" THEN c ELSE r] :
           keys \in SUBSET {"ports", "containers", "routes"},
           p \in ps, c \in cs, r \in rs}

\* Inputs for sequences of optimizer calls on one loaded object.
CallPayloads ==
    {d \in SmallPayloads :
        /\ Len(d.containers) = 1
        /\ d.containers[1].current_port = "A"
        /\ d.ports[1].capacity = 2
        /\ d.ports[1].lstm_forecast = Zero7
        /\ d.ports[2].lstm_forecast = Zero7}

\* Two tasks whose two orders cost 10 and 1000 over the route A -> B.
CallRelocationLists ==
    LET t1 == [from_port |-> "A", to_port |-> "B", container_count |-> 40]
        t2 == [from_port |-> "A", to_port |-> "A", container_count |-> 40]
    IN {<<>>, <<t1>>, <<t1, t2>>}

\* Two containers that serve the one demand at the same cost.
CallContainerLists ==
    {<<>>, <<ContainerData(1, "20GP", "A"), ContainerData(2, "20GP", "A")>>}

CallDemandLists ==
    {<<[id |-> 1, port |-> "B", required_type |-> "20GP", priority |-> 4]>>}

\* Two optimizer calls, of any kind, on one loaded object.
NextCalls ==
    \/ pc = "new" /\ \E data \in CallPayloads : LoadData(data)
    \/ previous = NoCall /\ OptimizeRedistribution
    \/ /\ previous = NoCall
       /\ \E relocations \in CallRelocationLists : OptimizeVehicleRouting(relocations)
    \/ /\ previous = NoCall
       /\ \E cs \in CallContainerLists : \E ds \in CallDemandLists :
             OptimizeAssignment(cs, ds)

SpecCalls == Init /\ [][NextCalls]_vars

\* Payloads that name the optimization to run, with the inputs main reads for it.
TypedPayloads ==
    LET base(ca) ==
            Payload(<<PortData("A", 0, ca, Zero7, 2), PortData("B", 0, 2, Zero7, 1)>>,
                    <<ContainerData(1, "20GP", "A"), ContainerData(2, "40GP", "A")>>,
                    <<RouteData("A", "B", 25, 3, 0), RouteData("B", "A", 30, 3, 0)>>)
        task(k) == [from_port |-> "A", to_port |-> "B", container_count |-> k]
        demand(p) == [id |-> 1, port |-> "B", required_type |-> "20GP", priority |-> p]
    IN {base(ca) @@ [optimization_type |-> ty] :
           ca \in {1, 2}, ty \in {"redistribution", "routing", "assignment", "rebalance"}}
       \cup {base(2) @@ [optimization_type |-> "routing", relocations |-> rl] :
                rl \in {<<>>, <<task(30)>>, <<task(70), task(30)>>, <<task(70), task(70)>>}}
       \cup {base(2) @@ [optimization_type |-> "assignment", demands |-> <<demand(p)>>] :
                p \in {1, 4}}

MainPayloads == LoadPayloads \cup TypedPayloads

\* One run of main: the load, the selected optimizer, the exit.
NextMain ==
    \/ MainRaises
    \/ pc = "new" /\ \E data \in MainPayloads : LoadData(data)
    \/ pc = "loaded" /\ optimization_type = "redistribution" /\ OptimizeRedistribution
    \/ /\ pc = "loaded"
       /\ optimization_type = "routing"
       /\ OptimizeVehicleRouting(Declared(input_data, "relocations"))
    \/ /\ pc = "loaded"
       /\ optimization_type = "assignment"
       /\ OptimizeAssignment(Declared(input_data, "containers"),
                             Declared(input_data, "demands"))
    \/ UnknownOptimizationType
    \/ Exit

SpecMain == Init /\ [][NextMain]_vars

\* Payloads that declare the pair A -> B twice, with different distance, cost
\* and capacity, in either order; B consumes fb containers on day 1.
DuplicateRoutePayloads ==
    LET r1 == RouteData("A", "B", 25, 7, 1)
        r2 == RouteData("A", "B", 40, 1, 2)
        back == RouteData("B", "A", 10, 1, 0)
    IN {Payload(<<PortData("A", 0, 2, Zero7, 0),
                  PortData("B", 0, 2, <<0, fb, 0, 0, 0, 0, 0>>, 5)>>,
                <<ContainerData(1, "20GP", "A"), ContainerData(2, "20GP", "A")>>,
                rs) :
           fb \in {1, 2}, rs \in {<<r1, r2, back>>, <<r2, r1, back>>}}

\* Every optimizer on a model with a pair of ports declared twice.
NextRoutes ==
    \/ pc = "new" /\ \E data \in DuplicateRoutePayloads : LoadData(data)
    \/ pc = "loaded" /\ OptimizeRedistribution
    \/ /\ pc = "loaded"
       /\ \E relocations \in RelocationLists : OptimizeVehicleRouting(relocations)
    \/ /\ pc = "loaded"
       /\ \E cs \in ContainerLists({"20GP"}, {"A"}) :
             \E ds \in {d \in DemandLists : Len(d) <= 1} : OptimizeAssignment(cs, ds)

SpecRoutes == Init /\ [][NextRoutes]_vars

VariationPayloads ==
    {d \in SmallPayloads : Len(d.containers) <= 1}
        \cup LatePayloads \cup ShortForecastPayloads

\* A payload that declares the ports of data again, those in which with another
\* current_empty (when empty) and another first forecast element (when first).
Varied(data, which, empty, first) ==
    [ports |->
        [i \in 1..Len(data.ports) |->
            IF i \notin which THEN data.ports[i]
            ELSE [data.ports[i] EXCEPT
                    !.current_empty = IF empty THEN @ + 7 ELSE @,
                    !.lstm_forecast = IF first /\ Len(@) > 0
                                      THEN [@ EXCEPT ![1] = @ + 4] ELSE @]]]

\* Redistribution on a model, then on the model with its ports declared again.
NextVariation ==
    \/ pc = "new" /\ \E data \in VariationPayloads : LoadData(data)
    \/ /\ pc = "done"
       /\ previous = NoCall
       /\ \E which \in SUBSET (1..Len(input_data.ports)) : \E empty, first \in BOOLEAN :
             /\ which # {}
             /\ empty \/ first
             /\ LoadData(Varied(input_data, which, empty, first))
    \/ pc = "loaded" /\ OptimizeRedistribution

SpecVariation == Init /\ [][NextVariation]_vars

\* Number of load_data calls on one optimizer object.
MaxLoads == 2

\* Payloads for repeated loads: port A is declared with two different sets of
\* values, and some payloads hold an entry without a required key after or
\* before complete ones.
ReloadPayloads ==
    LET a1 == PortData("A", 0, 2, Zero7, 1)
        a2 == PortData("A", 5, 9, <<0, 1, 0, 0, 0, 0, 0>>, 2)
        b  == PortData("B", 0, 2, Zero7, 1)
        c1 == ContainerData(1, "20GP", "A")
        c2 == ContainerData(2, "40GP", "B")
        r1 == RouteData("A", "B", 10, 3, 1)
        r2 == RouteData("A", "B", 20, 5, 2)
    IN {Payload(<<a1, b>>, <<c1>>, <<r1>>),
        Payload(<<a2>>, <<c2>>, <<r2>>),
        Payload(<<b, a2>>, <<>>, <<>>),
        Payload(<<a1, a2>>, <<c1, c1>>, <<r1, r1>>),
        Payload(<<a2, Without(b, "capacity"), b>>, <<c1>>, <<r1>>),
        Payload(<<Without(a1, "name")>>, <<c1>>, <<r1>>),
        Payload(<<a1>>, <<c1, Without(c2, "type"), c2>>, <<r1>>),
        Payload(<<b>>, <<c2>>, <<r1, Without(r2, "cost"), r2>>),
        [ports |-> <<a2>>],
        [containers |-> <<c2>>],
        [routes |-> <<r2>>],
        [optimization_type |-> "redistribution"]}

\* load_data called up to MaxLoads times on one optimizer object.
NextLoads ==
    Len(history) < MaxLoads /\ \E data \in ReloadPayloads : LoadData(data)

SpecLoads == Init /\ [][NextLoads]_vars

(***************************************************************************)
(* Claims about optimize_container_redistribution.                         *)
(***************************************************************************)
IsOptimalResult ==
    call.op = "redistribution" /\ "status" \in DOMAIN result /\ result.status = "optimal"

\* Sum of the returned relocation quantities of type c from port f (any port
\* when f = "*") to port t (any port when t = "*") on day index d.
Relocated(f, t, c, d) ==
    SumSeq([i \in 1..Len(result.relocations) |->
              LET r == result.relocations[i]
              IN IF /\ (f = "*" \/ r.from_port = f)
                    /\ (t = "*" \/ r.to_port = t)
                    /\ (c = "*" \/ r.container_type = c)
                    /\ r.day = d + 1
                 THEN r.quantity ELSE 0])

\* C1: in an optimal redistribution result, for every port, type and day of the
\* 7-day horizon, storage[0] = number of loaded containers of that type at that
\* port + inflow[0] - outflow[0] (no demand on day 0), and for t > 0
\* storage[t] = storage[t-1] + inflow[t] - outflow[t] - demand_forecast[t].
C1_FlowConservation ==
    IsOptimalResult =>
        \A i \in 1..Len(ports) : \A c \in TypeSet : \A t \in 0..6 :
            LET p  == ports[i].name
                st == result.storage_plan[p][c]
                held == Cardinality({j \in 1..Len(containers) :
                            containers[j].current_port = p /\ containers[j].type = c})
                net == Relocated("*", p, c, t) - Relocated(p, "*", c, t)
            IN /\ Len(st) = 7
               /\ t = 0 => st[1] = held + net
               /\ (t > 0 /\ t < Len(ports[i].demand_forecast)) =>
                     st[t + 1] = st[t] + net - ports[i].demand_forecast[t + 1]

\* A plan that moves containers while a port has a non-zero forecast both on
\* day 0 and on a later day.
C1_Witness ==
    /\ IsOptimalResult
    /\ result.relocations # <<>>
    /\ \E i \in 1..Len(ports) :
          /\ ports[i].demand_forecast[1] # 0
          /\ ports[i].demand_forecast[2] # 0
          /\ \E j \in 1..Len(containers) : containers[j].current_port = ports[i].name

\* C2: in an optimal redistribution result every storage value is >= 0, the
\* storage of a port summed over the types is at most its capacity on every
\* day, and the quantity relocated over an ordered pair of ports on a day,
\* summed over the types, is at most the capacity of the (first) route declared
\* for the pair, or 100 when none is declared.
C2_Capacity ==
    IsOptimalResult =>
        /\ \A i \in 1..Len(ports) : \A t \in 1..7 :
              LET plan == result.storage_plan[ports[i].name]
              IN /\ \A c \in DOMAIN plan : plan[c][t] >= 0
                 /\ SumSet([c \in DOMAIN plan |-> plan[c][t]], DOMAIN plan)
                       <= ports[i].capacity
        /\ \A i \in 1..Len(ports) : \A j \in 1..Len(ports) : \A t \in 0..6 :
              i # j =>
                 LET declared == {k \in 1..Len(routes) :
                                     /\ routes[k].from_port = ports[i].name
                                     /\ routes[k].to_port = ports[j].name}
                     total == Relocated(ports[i].name, ports[j].name, "*", t)
                 IN /\ declared # {} => total <= routes[MinOf(declared)].capacity_teu
                    /\ declared = {} => total <= 100

\* A plan that ships exactly 100 containers on one day over a pair of ports
\* without a declared route.
C2_Witness ==
    /\ IsOptimalResult
    /\ \E i \in 1..Len(result.relocations) :
          LET r == result.relocations[i]
          IN /\ r.quantity = 100
             /\ \A k \in 1..Len(routes) :
                   ~(routes[k].from_port = r.from_port /\ routes[k].to_port = r.to_port)

\* C3: whenever redistribution does not reach an optimal solve (non-optimal
\* status, solver backend unavailable, or an exception), the result holds both
\* an explicit error and the fallback solution, and is not success-shaped.
C3_ErrorWithFallback ==
    (call.op = "redistribution" /\ call.path # "optimal") =>
        /\ "error" \in DOMAIN result
        /\ "fallback_solution" \in DOMAIN result
        /\ "status" \notin DOMAIN result

\* C5: for the documented two-port scenario (A: capacity 100, 20 empty, forecast
\* 5 a day; B: capacity 100, 5 empty, forecast -10 a day; one route A -> B of
\* cost 10 and capacity 50) redistribution returns relocations from A to B on
\* early days, and every storage value of B is between 0 and 100.
C5_ScenarioRelocatesAToB ==
    (/\ call.op = "redistribution"
     /\ call.path # "unavailable"
     /\ input_data = ScenarioPayload) =>
        /\ IsOptimalResult
        /\ \E i \in 1..Len(result.relocations) :
              LET r == result.relocations[i]
              IN r.from_port = "A" /\ r.to_port = "B" /\ r.day <= 3 /\ r.quantity > 0
        /\ \A c \in DOMAIN result.storage_plan["B"] : \A t \in 1..7 :
              LET v == result.storage_plan["B"][c][t] IN 0 <= v /\ v <= 100

(***************************************************************************)
(* Claims about the fallback, the assignment and the routing.              *)
(***************************************************************************)
\* C4: a fallback plan has zero relocations and the status "fallback", which is
\* not the status of an optimal result; only redistribution produces one, so a
\* routing or assignment failure is a bare error object.
C4_FallbackOnlyFromRedistribution ==
    /\ "fallback_solution" \in DOMAIN result =>
          /\ call.op = "redistribution"
          /\ result.fallback_solution.relocations = <<>>
          /\ result.fallback_solution.status = "fallback"
          /\ result.fallback_solution.status # "optimal"
    /\ (call.op \in {"routing", "assignment"} /\ "error" \in DOMAIN result) =>
          DOMAIN result = {"error"}

\* Redistribution failed and returned a fallback plan.
C4_Witness ==
    call.op = "redistribution" /\ "fallback_solution" \in DOMAIN result

\* The compatibility table of the documentation, as (container type, required
\* type) pairs.
CompatibleTable ==
    {<<"20GP", "20GP">>, <<"40GP", "40GP">>, <<"40GP", "40HC">>,
     <<"40HC", "40HC">>, <<"40HC", "40GP">>}

IsAssignmentResult == call.op = "assignment" /\ "assignments" \in DOMAIN result

\* The demand of the call with the given id (ids are unique in a call).
DemandWithId(id) ==
    call.demands[CHOOSE j \in 1..Len(call.demands) : call.demands[j].id = id]

\* C6: in an assignment result no container and no demand appears in two
\* assignments, and no assignment pairs a container with a demand whose required
\* type is incompatible with the container's type.
C6_AssignmentIsMatching ==
    IsAssignmentResult =>
        LET as == result.assignments
        IN /\ \A a \in 1..Len(as) : \A b \in 1..Len(as) :
                 a # b => /\ as[a].container_id # as[b].container_id
                          /\ as[a].demand_id # as[b].demand_id
           /\ \A a \in 1..Len(as) :
                 <<as[a].container_type, DemandWithId(as[a].demand_id).required_type>>
                    \in CompatibleTable

\* A pair is assigned while an incompatible pair, whose demand has priority 300
\* so that its penalised cost is still negative, is left out.
C6_Witness ==
    /\ IsAssignmentResult
    /\ Len(result.assignments) >= 1
    /\ \E i \in 1..Len(call.containers) : \E j \in 1..Len(call.demands) :
          /\ <<call.containers[i].type, call.demands[j].required_type>>
                \notin CompatibleTable
          /\ call.demands[j].priority = 300
          /\ \A a \in 1..Len(result.assignments) :
                result.assignments[a].demand_id # call.demands[j].id

\* C7: in an optimal assignment result unassigned_containers is exactly the input
\* containers in no selected pair and unmet_demands exactly the input demands in
\* no selected pair; when every pair is type-incompatible, assignments is empty
\* and every container and every demand is reported.
C7_Leftovers ==
    (IsAssignmentResult /\ call.path = "optimal") =>
        LET as == result.assignments
            usedC == {as[a].container_id : a \in 1..Len(as)}
            usedD == {as[a].demand_id : a \in 1..Len(as)}
        IN /\ result.unassigned_containers
                 = SelectSeq(call.containers,
                             LAMBDA c : ~("id" \in DOMAIN c) \/ c.id \notin usedC)
           /\ result.unmet_demands
                 = SelectSeq(call.demands, LAMBDA d : d.id \notin usedD)
           /\ (\A i \in 1..Len(call.containers) : \A j \in 1..Len(call.demands) :
                  <<call.containers[i].type, call.demands[j].required_type>>
                     \notin CompatibleTable) =>
                 /\ as = <<>>
                 /\ result.unassigned_containers = call.containers
                 /\ result.unmet_demands = call.demands

\* One 20GP container and one demand requiring 40GP: nothing is assigned.
C7_Witness ==
    /\ IsAssignmentResult
    /\ call.path = "optimal"
    /\ Len(call.containers) = 1 /\ call.containers[1].type = "20GP"
    /\ Len(call.demands) = 1 /\ call.demands[1].required_type = "40GP"
    /\ result.assignments = <<>>
    /\ Len(result.unassigned_containers) = 1
    /\ Len(result.unmet_demands) = 1

\* C8: a 20GP container satisfies only 20GP; a 40GP container 40GP or 40HC; a
\* 40HC container 40HC or 40GP; every other pair is incompatible, also for a
\* container type outside the table.
C8_CompatibilityTable ==
    call.op = "assignment" =>
        \A i \in {k \in 1..Len(call.containers) : "type" \in DOMAIN call.containers[k]} :
        \A j \in 1..Len(call.demands) :
            _is_compatible(call.containers[i].type, call.demands[j].required_type)
               <=> <<call.containers[i].type, call.demands[j].required_type>>
                      \in CompatibleTable

\* A call with a 40GP container for a 40HC demand and a 45HC container for a
\* 45HC demand: the first pair is assigned, the second is not.
C8_Witness ==
    /\ IsAssignmentResult
    /\ Len(call.containers) = 2 /\ Len(call.demands) = 2
    /\ call.containers[1].type = "40GP" /\ call.demands[1].required_type = "40HC"
    /\ call.containers[2].type = "45HC" /\ call.demands[2].required_type = "45HC"
    /\ Len(result.assignments) = 1
    /\ result.assignments[1].container_id = 1

\* C9: optimize_assignment returns an object with the keys assignments,
\* unassigned_containers, unmet_demands and total_cost, or an object with the
\* key error, also when the container list or the demand list is empty.
C9_AssignmentShape ==
    call.op = "assignment" =>
        \/ {"assignments", "unassigned_containers", "unmet_demands", "total_cost"}
              \subseteq DOMAIN result
        \/ "error" \in DOMAIN result

\* C10: in a routing result that is not an error, the container_count summed
\* along the returned route, from zero at the depot, never exceeds 100.
C10_RouteWithinCapacity ==
    (call.op = "routing" /\ "routes" \in DOMAIN result) =>
        \A r \in 1..Len(result.routes) : \A k \in 1..Len(result.routes[r]) :
            SumSeq([x \in 1..k |-> result.routes[r][x].container_count]) <= 100

\* A route of several tasks that fills the vehicle exactly.
C10_Witness ==
    /\ call.op = "routing"
    /\ "routes" \in DOMAIN result
    /\ Len(result.routes) = 1
    /\ Len(result.routes[1]) >= 2
    /\ SumSeq([x \in 1..Len(result.routes[1]) |->
                  result.routes[1][x].container_count]) = 100

(***************************************************************************)
(* Claims about the routing of an empty or infeasible batch.               *)
(***************************************************************************)
\* C11: routing with zero relocation tasks returns routes = [[]] (a list that
\* holds exactly one empty route) and total_distance = 0, without an error and
\* without a solve.
C11_EmptyBatchOneEmptyRoute ==
    (call.op = "routing" /\ call.relocations = <<>>) =>
        /\ ~("error" \in DOMAIN result)
        /\ result.routes = << <<>> >>
        /\ result.total_distance = 0
        /\ call.solves = 0

\* No order of the tasks keeps the running load within the vehicle's 100.
NoFeasibleRoute(relocations) ==
    \A order \in Perms(1..Len(relocations)) :
        \E k \in 1..Len(order) :
            SumSeq([x \in 1..k |-> relocations[order[x]].container_count]) > 100

\* C12: when no feasible single-vehicle route exists for a non-empty batch,
\* optimize_vehicle_routing returns an error object, never a result with
\* routes or total_distance, and it has solved once, not twice.
C12_NoRouteIsError ==
    (/\ call.op = "routing"
     /\ call.relocations # <<>>
     /\ NoFeasibleRoute(call.relocations)) =>
        /\ "error" \in DOMAIN result
        /\ DOMAIN result \cap {"routes", "total_distance"} = {}
        /\ call.solves <= 1

\* A batch with a task of more than 100 containers has been answered.
C12_Witness ==
    /\ call.op = "routing"
    /\ \E i \in 1..Len(call.relocations) : call.relocations[i].container_count > 100
    /\ "error" \in DOMAIN result

(***************************************************************************)
(* Claims about load_data and the command line.                            *)
(***************************************************************************)
\* The entries the payload declares for a kind, none when the key is missing.
DeclaredEntries(kind) == IF kind \in DOMAIN input_data THEN input_data[kind] ELSE <<>>

\* Every declared entry of the kind has all the fields load_data requires.
EntriesComplete(kind, required) ==
    \A i \in 1..Len(DeclaredEntries(kind)) : required \subseteq DOMAIN DeclaredEntries(kind)[i]

PayloadComplete ==
    /\ EntriesComplete("ports", {"name", "current_empty", "capacity", "lstm_forecast",
                                 "storage_cost", "handling_cost", "lat", "lng"})
    /\ EntriesComplete("containers", {"id", "type", "current_port", "dwell_time",
                                      "priority"})
    /\ EntriesComplete("routes", {"from", "to", "distance", "cost", "transit_time",
                                  "capacity"})

\* C13: load_data never raises, it returns a flag: True exactly when every
\* entry of every kind has its required fields, False when some entry lacks
\* one; a kind whose key is missing from the payload is loaded as empty and
\* does not make the load fail.
C13_LoadReturnsFlag ==
    pc \in {"loaded", "failed"} =>
        /\ (pc = "loaded") <=> PayloadComplete
        /\ pc = "failed" => ~PayloadComplete
        /\ ~("ports" \in DOMAIN input_data) => ports = <<>>
        /\ ~("containers" \in DOMAIN input_data) => containers = <<>>
        /\ ~("routes" \in DOMAIN input_data) => routes = <<>>

\* A payload without the key ports whose second container lacks a field has
\* been refused.
C13_Witness ==
    /\ pc = "failed"
    /\ ~("ports" \in DOMAIN input_data)
    /\ "containers" \in DOMAIN input_data
    /\ ~EntriesComplete("containers", {"priority"})
    /\ ports = <<>>

\* C14: after load_data returns, for each kind either every declared entry of
\* the kind is in the model (ports under their names, containers and routes in
\* payload order) or the call is marked failed.
C14_AllLoadedOrFailed ==
    pc \in {"loaded", "failed"} =>
        \/ pc = "failed"
        \/ /\ \A i \in 1..Len(DeclaredEntries("ports")) :
                  LET e == DeclaredEntries("ports")[i]
                  IN (\A j \in (i + 1)..Len(DeclaredEntries("ports")) :
                          DeclaredEntries("ports")[j].name # e.name) =>
                     \E k \in 1..Len(ports) :
                        /\ ports[k].name = e.name
                        /\ ports[k].current_empty = e.current_empty
                        /\ ports[k].capacity = e.capacity
                        /\ ports[k].demand_forecast = e.lstm_forecast
                        /\ ports[k].storage_cost_per_day = e.storage_cost
           /\ Len(containers) = Len(DeclaredEntries("containers"))
           /\ \A i \in 1..Len(containers) :
                  LET e == DeclaredEntries("containers")[i]
                  IN /\ containers[i].id = e.id
                     /\ containers[i].type = e.type
                     /\ containers[i].current_port = e.current_port
           /\ Len(routes) = Len(DeclaredEntries("routes"))
           /\ \A i \in 1..Len(routes) :
                  LET e == DeclaredEntries("routes")[i]
                  IN /\ routes[i].from_port = e.from
                     /\ routes[i].to_port = e.to
                     /\ routes[i].distance_km = e.distance
                     /\ routes[i].transport_cost = e.cost
                     /\ routes[i].capacity_teu = e.capacity

\* A payload with a port, two containers and two routes has been loaded.
C14_Witness ==
    /\ pc = "loaded"
    /\ Len(ports) = 1
    /\ Len(containers) = 2
    /\ Len(routes) = 2
    /\ Len(DeclaredEntries("routes")) = 2

\* Some line of the stream is a JSON document.
HasJson(stream) == \E i \in 1..Len(stream) : "json" \in DOMAIN stream[i]

\* C15: a run of the command line that succeeds prints the result to standard
\* output and exits 0; a run whose input could not be loaded (load_data
\* returned False, or reading the file raised) prints a JSON error object to
\* standard error, prints no JSON on standard output and exits non-zero.
C15_CliStreams ==
    pc = "exited" =>
        IF "absent" \in DOMAIN input_data \/ ~PayloadComplete
        THEN /\ \E i \in 1..Len(stderr) :
                   /\ "json" \in DOMAIN stderr[i]
                   /\ "error" \in DOMAIN stderr[i].json
             /\ ~HasJson(stdout)
             /\ exit_code # 0
        ELSE /\ stdout # <<>>
             /\ stdout[Len(stdout)] = [json |-> result]
             /\ exit_code = 0

SameRunTwice ==
    /\ previous # NoCall
    /\ previous.call.op = call.op
    /\ call.op = "routing" => previous.call.relocations = call.relocations
    /\ call.op = "assignment" =>
          /\ previous.call.containers = call.containers
          /\ previous.call.demands = call.demands

\* The objective value an object reports, as a set: empty for an error object.
ObjectiveOf(op, r) ==
    IF op = "routing"
    THEN (IF "total_distance" \in DOMAIN r THEN {r.total_distance} ELSE {})
    ELSE (IF "total_cost" \in DOMAIN r THEN {r.total_cost} ELSE {})

C18_ModelUnchanged ==
    pc = "done" =>
        LET loaded == LoadOutcome(<<>>, <<>>, <<>>, input_data)
        IN /\ ports = loaded.ports
           /\ containers = loaded.containers
           /\ routes = loaded.routes

\* An assignment has run after a redistribution on a model with a container.
C18_Witness ==
    /\ pc = "done"
    /\ previous # NoCall
    /\ previous.call.op = "redistribution"
    /\ call.op = "assignment"
    /\ containers # <<>>
    /\ routes # <<>>

(***************************************************************************)
(* Claims about the cost functions.                                        *)
(***************************************************************************)
\* The transport cost of the route declared from f to t, 0 without one.
DeclaredTransportCost(f, t) ==
    LET hits == {i \in 1..Len(routes) :
                    routes[i].from_port = f /\ routes[i].to_port = t}
    IN IF hits = {} THEN 0 ELSE routes[CHOOSE i \in hits : TRUE].transport_cost

\* 10 + transport cost + 1000 for an incompatible pair - 5 * priority.
ClaimedCost(c, d) ==
    10 + DeclaredTransportCost(c.current_port, d.port)
       + (IF <<c.type, d.required_type>> \in CompatibleTable THEN 0 ELSE 1000)
       - 5 * d.priority

\* C19: the cost of assigning container c to demand d is 10 + the transport
\* cost of the route from c.current_port to d.port (0 without a route) + 1000
\* when the types are incompatible - 5 * d.priority, for every pair of the call
\* and in the cost field of every returned assignment; so of two demands at the
\* same port with the same required type the one with the higher priority
\* never costs more.
C19_AssignmentCost ==
    (call.op = "assignment" /\ call.path = "optimal") =>
        /\ \A i \in 1..Len(call.containers) : \A j \in 1..Len(call.demands) :
              _calculate_assignment_cost(call.containers[i], call.demands[j])
                 = ClaimedCost(call.containers[i], call.demands[j])
        /\ \A a \in 1..Len(result.assignments) :
              \E i \in 1..Len(call.containers) : \E j \in 1..Len(call.demands) :
                 /\ call.containers[i].id = result.assignments[a].container_id
                 /\ call.demands[j].id = result.assignments[a].demand_id
                 /\ result.assignments[a].cost
                       = ClaimedCost(call.containers[i], call.demands[j])
        /\ \A i \in 1..Len(call.containers) :
              \A j \in 1..Len(call.demands) : \A k \in 1..Len(call.demands) :
                 (/\ call.demands[j].port = call.demands[k].port
                  /\ call.demands[j].required_type = call.demands[k].required_type
                  /\ call.demands[j].priority > call.demands[k].priority) =>
                    _calculate_assignment_cost(call.containers[i], call.demands[j])
                       <= _calculate_assignment_cost(call.containers[i], call.demands[k])

\* Over a route of transport cost 3 a container went to the demand of priority 4
\* at cost 10 + 3 - 20, the demand of priority 1 of the same type being unmet.
C19_Witness ==
    /\ call.op = "assignment"
    /\ call.path = "optimal"
    /\ DeclaredTransportCost("A", "B") = 3
    /\ Len(result.assignments) = 1
    /\ result.assignments[1].cost = -7
    /\ \E k \in 1..Len(result.unmet_demands) :
          /\ result.unmet_demands[k].priority = 1
          /\ result.unmet_demands[k].required_type = result.assignments[1].container_type

\* The distance, in tenths of a kilometre, of the route declared from f to t;
\* -1 without one.
DeclaredDistance(f, t) ==
    LET hits == {i \in 1..Len(routes) :
                    routes[i].from_port = f /\ routes[i].to_port = t}
    IN IF hits = {} THEN -1 ELSE routes[CHOOSE i \in hits : TRUE].distance_km

\* The returned route of a solved routing call, and the sum of f over its arcs
\* between consecutive tasks (the two depot arcs add 0).
ReturnedRoute == result.routes[1]

SumOverArcs(f(_, _)) ==
    SumSeq([k \in 1..(Len(ReturnedRoute) - 1) |->
               f(ReturnedRoute[k].from_port, ReturnedRoute[k + 1].to_port)])

\* The arc cost as claimed, in tenths: the route's distance, or 1000 km.
ClaimedArcTenths(f, t) ==
    IF DeclaredDistance(f, t) < 0 THEN 1000 * Tenths ELSE DeclaredDistance(f, t)

\* The arc cost in whole kilometres: the route's distance without its
\* fraction, or 1000.
TruncatedArc(f, t) ==
    IF DeclaredDistance(f, t) < 0 THEN 1000 ELSE DeclaredDistance(f, t) \div Tenths

\* C20 as stated: total_distance is the sum, over the consecutive tasks i, j of
\* the returned route, of the distance of the route from i's from_port to j's
\* to_port, 1000 when there is none, the depot arcs costing 0.
C20_ArcCostIsDistance ==
    (call.op = "routing" /\ call.path = "solved") =>
        result.total_distance * Tenths = SumOverArcs(ClaimedArcTenths)

\* C20, amended: the arc between task nodes costs the route's distance
\* truncated to whole kilometres (1000 without a route), an arc from or to the
\* depot costs 0, and total_distance is the sum of these costs along the
\* returned route, which may contain arcs of cost 1000.
C20_ArcCostIsTruncatedDistance ==
    (call.op = "routing" /\ call.path = "solved") =>
        /\ result.total_distance = SumOverArcs(TruncatedArc)
        /\ \A i \in 0..Len(call.relocations) : \A j \in 0..Len(call.relocations) :
              distance_callback(call.relocations, i, j)
                 = IF i = 0 \/ j = 0 THEN 0
                   ELSE TruncatedArc(call.relocations[i].from_port,
                                     call.relocations[j].to_port)

\* A returned route goes over an arc without a route (1000) and over the route
\* A -> B of 10.5 km, counted as 10.
C20_Witness ==
    /\ call.op = "routing"
    /\ call.path = "solved"
    /\ DeclaredDistance("A", "B") = 105
    /\ Len(ReturnedRoute) = 3
    /\ result.total_distance = 1000 + 10

(***************************************************************************)
(* Claims about the extraction of the redistribution plan.                 *)
(***************************************************************************)
\* The relocations of the result for flow variable flow[f][t][c][d].
EntriesFor(f, t, c, d) ==
    {i \in 1..Len(result.relocations) :
        LET r == result.relocations[i]
        IN /\ r.from_port = f
           /\ r.to_port = t
           /\ r.container_type = c
           /\ r.day = d + 1}

\* C21: in an optimal redistribution result the relocations list holds exactly
\* one entry for every (from, to, type, day) whose flow in the solver's point is
\* positive and none for a flow of zero; the quantity of an entry is the flow
\* value, its from_port differs from its to_port, and its priority is "high"
\* when the day index is <= 2 (day 1, 2 or 3) and "medium" otherwise.
C21_RelocationsArePositiveFlows ==
    IsOptimalResult =>
        /\ \A k \in FlowKeys : \A d \in 0..6 :
              LET v == call.point[d + 1].flow[k]
                  entries == EntriesFor(k[1], k[2], k[3], d)
              IN IF v > 0
                 THEN /\ Cardinality(entries) = 1
                      /\ \A i \in entries : result.relocations[i].quantity = v
                 ELSE entries = {}
        /\ \A i \in 1..Len(result.relocations) :
              LET r == result.relocations[i]
              IN /\ r.from_port # r.to_port
                 /\ <<r.from_port, r.to_port, r.container_type>> \in FlowKeys
                 /\ r.day \in 1..7
                 /\ r.priority = (IF r.day - 1 <= 2 THEN "high" ELSE "medium")

\* A plan with a relocation in the first three days, one after them, and a flow
\* variable that stays zero.
C21_Witness ==
    /\ IsOptimalResult
    /\ \E i, j \in 1..Len(result.relocations) :
          /\ result.relocations[i].day <= 3 /\ result.relocations[i].priority = "high"
          /\ result.relocations[j].day > 3 /\ result.relocations[j].priority = "medium"
    /\ \E k \in FlowKeys : \E d \in 0..6 : call.point[d + 1].flow[k] = 0

(***************************************************************************)
(* Claims about the objective of the redistribution model.                 *)
(***************************************************************************)
\* Largest flow value of the plans the returned plan is compared with.
MaxAlternativeFlow == 1

\* The transport cost of the route declared for the pair, 50 when none is.
ClaimedRouteCost(f, t) ==
    LET declared == {k \in 1..Len(routes) :
                        routes[k].from_port = f /\ routes[k].to_port = t}
    IN IF declared = {} THEN 50 ELSE routes[MinOf(declared)].transport_cost

\* The two sums of the claim over the returned plan.
ClaimedStorageCost ==
    SumSeq([i \in 1..Len(ports) |->
              LET plan == result.storage_plan[ports[i].name]
              IN SumSet([c \in DOMAIN plan |->
                            ports[i].storage_cost_per_day * SumSeq(plan[c])],
                        DOMAIN plan)])

ClaimedTransportCost ==
    SumSeq([i \in 1..Len(result.relocations) |->
              LET r == result.relocations[i]
              IN ClaimedRouteCost(r.from_port, r.to_port) * r.quantity])

\* One day of a plan, checked against the constraints as the claim lists them.
AlternativeDemand(p, d) ==
    LET f == PortOf(p).demand_forecast
    IN IF d > 0 /\ d < Len(f) THEN f[d + 1] ELSE 0

AlternativeStorage(d, before, fl) ==
    [k \in StorageKeys |->
        before[k]
        + SumSet([x \in FlowKeys |-> IF x[2] = k[1] /\ x[3] = k[2] THEN fl[x] ELSE 0], FlowKeys)
        - SumSet([x \in FlowKeys |-> IF x[1] = k[1] /\ x[3] = k[2] THEN fl[x] ELSE 0], FlowKeys)
        - AlternativeDemand(k[1], d)]

AlternativeDayOK(fl, after) ==
    /\ \A k \in StorageKeys : after[k] >= 0 /\ after[k] <= PortOf(k[1]).capacity
    /\ \A i \in 1..Len(ports) :
          SumSet([k \in StorageKeys |-> IF k[1] = ports[i].name THEN after[k] ELSE 0],
                 StorageKeys) <= ports[i].capacity
    /\ \A i, j \in 1..Len(ports) :
          i # j =>
             LET declared == {k \in 1..Len(routes) :
                                 /\ routes[k].from_port = ports[i].name
                                 /\ routes[k].to_port = ports[j].name}
                 limit == IF declared = {} THEN 100
                          ELSE routes[MinOf(declared)].capacity_teu
             IN SumSet([x \in FlowKeys |->
                           IF x[1] = ports[i].name /\ x[2] = ports[j].name
                           THEN fl[x] ELSE 0], FlowKeys) <= limit

AlternativeDayCost(fl, after) ==
    SumSet([k \in StorageKeys |-> PortOf(k[1]).storage_cost_per_day * after[k]],
           StorageKeys)
    + SumSet([x \in FlowKeys |-> ClaimedRouteCost(x[1], x[2]) * fl[x]], FlowKeys)

RECURSIVE AlternativeValues(_)
\* The pairs <<storage after day d, least cost of days 0..d>> over the feasible
\* plans for days 0..d whose flows are at most MaxAlternativeFlow and that end
\* day d with that storage.
AlternativeValues(d) ==
    IF d < 0
    THEN {<<[k \in StorageKeys |->
               Cardinality({i \in 1..Len(containers) :
                               /\ containers[i].current_port = k[1]
                               /\ containers[i].type = k[2]})], 0>>}
    ELSE LET step(v, fl) ==
                 LET after == AlternativeStorage(d, v[1], fl)
                 IN IF AlternativeDayOK(fl, after)
                    THEN {<<after, v[2] + AlternativeDayCost(fl, after)>>}
                    ELSE {}
             all == UNION {step(v, fl) : v \in AlternativeValues(d - 1),
                                         fl \in [FlowKeys -> 0..MaxAlternativeFlow]}
         IN {v \in all : \A w \in all : w[1] = v[1] => v[2] <= w[2]}

DeclaredFor(f, t) ==
    {k \in 1..Len(routes) : routes[k].from_port = f /\ routes[k].to_port = t}

\* The route of the pair that was loaded first.
FirstDeclared(f, t) == routes[CHOOSE k \in DeclaredFor(f, t) :
                                 \A x \in DeclaredFor(f, t) : k <= x]

\* C23: when several routes are declared for one ordered pair of ports, the
\* redistribution cost and capacity of the pair, the routing arc distance and
\* the assignment transport cost are those of the entry loaded first.
C23_FirstRouteWins ==
    /\ IsOptimalResult =>
          /\ result.total_cost = ClaimedStorageCost
                + SumSeq([i \in 1..Len(result.relocations) |->
                            LET r == result.relocations[i]
                            IN r.quantity *
                                  (IF DeclaredFor(r.from_port, r.to_port) = {} THEN 50
                                   ELSE FirstDeclared(r.from_port, r.to_port).transport_cost)])
          /\ \A f, t \in PortNameSet : \A d \in 0..6 :
                DeclaredFor(f, t) # {} =>
                   Relocated(f, t, "*", d) <= FirstDeclared(f, t).capacity_teu
    /\ (call.op = "routing" /\ call.path = "solved") =>
          result.total_distance =
             SumOverArcs(LAMBDA f, t :
                IF DeclaredFor(f, t) = {} THEN 1000
                ELSE FirstDeclared(f, t).distance_km \div 10)
    /\ IsAssignmentResult =>
          \A i \in 1..Len(result.assignments) :
             LET a == result.assignments[i]
                 c == CHOOSE c \in Range(call.containers) : c.id = a.container_id
                 d == DemandWithId(a.demand_id)
             IN a.cost = 10 - 5 * d.priority
                          + (IF DeclaredFor(c.current_port, d.port) = {} THEN 0
                             ELSE FirstDeclared(c.current_port, d.port).transport_cost)

\* A plan that ships over a pair declared twice, the second entry being cheaper
\* and wider than the first.
C23_Witness ==
    /\ IsOptimalResult
    /\ \E i \in 1..Len(result.relocations) :
          LET r == result.relocations[i]
              declared == DeclaredFor(r.from_port, r.to_port)
          IN /\ Cardinality(declared) > 1
             /\ \E k \in declared :
                   /\ routes[k].transport_cost
                         < FirstDeclared(r.from_port, r.to_port).transport_cost
                   /\ routes[k].capacity_teu
                         > FirstDeclared(r.from_port, r.to_port).capacity_teu

(***************************************************************************)
(* Claims about the number of solver invocations.                          *)
(***************************************************************************)
\* The call ended in one of the failures the optimizers report.
CallFailed == call.path \in {"unavailable", "exception", "non_optimal", "no_solution"}

\* C24: an optimizer call invokes the solver at most once; a failed call returns
\* one error object and no solution of a second attempt; the call with an empty
\* relocation batch and the call with an empty container or demand list do not
\* invoke the solver at all.
C24_AtMostOneSolve ==
    call # NoCall =>
        /\ call.solves \in {0, 1}
        /\ CallFailed =>
              /\ "error" \in DOMAIN result
              /\ DOMAIN result \cap {"status", "relocations", "routes", "assignments"} = {}
        /\ (call.op = "routing" /\ call.relocations = <<>>) =>
              call.solves = 0 /\ "error" \notin DOMAIN result
        /\ (call.op = "assignment" /\ (call.containers = <<>> \/ call.demands = <<>>)) =>
              call.solves = 0 /\ "error" \notin DOMAIN result

\* A redistribution call whose single solve was not optimal.
C24_Witness ==
    /\ call.op = "redistribution"
    /\ call.path = "non_optimal"
    /\ call.solves = 1
    /\ "error" \in DOMAIN result

(***************************************************************************)
(* Claims about the sign of the assignment costs.                          *)
(***************************************************************************)
\* The result of a solved assignment model.
IsSolvedAssignment == IsAssignmentResult /\ "total_cost" \in DOMAIN result

\* 10 + transport cost - 5 * priority for the pair of a container and a demand.
PairCost(c, d) ==
    10 + DeclaredTransportCost(c.current_port, d.port) - 5 * d.priority

\* C25: in an optimal assignment result every assigned pair has cost <= 0 and
\* total_cost, the sum of the cost fields, is <= 0; a type-compatible pair whose
\* cost 10 + transport - 5 * priority is > 0 is never assigned, also when the
\* container stays unassigned and the demand unmet.
C25_NoPositiveCostPair ==
    IsSolvedAssignment =>
        /\ \A k \in 1..Len(result.assignments) : result.assignments[k].cost <= 0
        /\ result.total_cost
              = SumSeq([k \in 1..Len(result.assignments) |-> result.assignments[k].cost])
        /\ result.total_cost <= 0
        /\ \A i \in 1..Len(call.containers) : \A j \in 1..Len(call.demands) :
              LET c == call.containers[i]
                  d == call.demands[j]
              IN (<<c.type, d.required_type>> \in CompatibleTable /\ PairCost(c, d) > 0) =>
                    /\ <<i, j>> \notin call.x
                    /\ ("id" \in DOMAIN c /\ "id" \in DOMAIN d) =>
                          ~\E k \in 1..Len(result.assignments) :
                              /\ result.assignments[k].container_id = c.id
                              /\ result.assignments[k].demand_id = d.id

\* A compatible pair of positive cost whose container is returned unassigned and
\* whose demand is returned unmet.
C25_Witness ==
    /\ IsSolvedAssignment
    /\ \E i \in 1..Len(call.containers) : \E j \in 1..Len(call.demands) :
          LET c == call.containers[i]
              d == call.demands[j]
          IN /\ <<c.type, d.required_type>> \in CompatibleTable
             /\ PairCost(c, d) > 0
             /\ c \in Range(result.unassigned_containers)
             /\ d \in Range(result.unmet_demands)

(***************************************************************************)
(* Claims about the completeness of the returned route.                    *)
(***************************************************************************)
\* The sum of container_count over the tasks of the batch.
BatchLoad == SumSeq([k \in 1..Len(call.relocations) |->
                        call.relocations[k].container_count])

\* C26: a routing result without error for a batch that is not empty holds
\* exactly one route, and that route holds every task of the batch exactly once;
\* so the call returns an error whenever the container_count of the batch sums
\* to more than 100.
C26_RouteHoldsEveryTask ==
    (call.op = "routing" /\ call.relocations # <<>>) =>
        /\ "error" \notin DOMAIN result =>
              /\ Len(result.routes) = 1
              /\ \E order \in Perms(1..Len(call.relocations)) :
                    result.routes[1] = [k \in 1..Len(call.relocations) |->
                                           call.relocations[order[k]]]
        /\ BatchLoad > 100 => "error" \in DOMAIN result

\* A route of three tasks, two of them equal, that fills the vehicle.
C26_Witness ==
    /\ call.op = "routing"
    /\ "routes" \in DOMAIN result
    /\ Len(call.relocations) = 3
    /\ Len(result.routes[1]) = 3
    /\ call.relocations[1] = call.relocations[2]
    /\ BatchLoad > 70

(***************************************************************************)
(* Claims about the inputs the redistribution model does not read.         *)
(***************************************************************************)
\* The second payload declares the ports of the first one again and nothing
\* else, and differs from it at most in current_empty and in element 0 of the
\* forecast, somewhere.
VariesOnlyUnread ==
    /\ Len(history) = 2
    /\ DOMAIN history[2] = {"ports"}
    /\ Len(history[2].ports) = Len(history[1].ports)
    /\ history[2].ports # history[1].ports
    /\ \A i \in 1..Len(history[1].ports) :
          LET a == history[1].ports[i]
              b == history[2].ports[i]
          IN /\ DOMAIN a = DOMAIN b
             /\ \A key \in DOMAIN a \ {"current_empty", "lstm_forecast"} : a[key] = b[key]
             /\ Len(a.lstm_forecast) = Len(b.lstm_forecast)
             /\ \A t \in 2..Len(a.lstm_forecast) : a.lstm_forecast[t] = b.lstm_forecast[t]

\* C27: two redistribution calls on inputs that differ only in current_empty or
\* in element 0 of a forecast end alike, both with an optimal plan or both with
\* the error, and two optimal plans have the same objective value (the solver
\* being available both times).
C27_UnreadInputsDoNotMatter ==
    (/\ VariesOnlyUnread
     /\ previous # NoCall
     /\ previous.call.op = "redistribution" /\ call.op = "redistribution"
     /\ previous.call.path # "unavailable" /\ call.path # "unavailable") =>
        /\ call.path = previous.call.path
        /\ DOMAIN result = DOMAIN previous.result
        /\ call.path = "optimal" => result.total_cost = previous.result.total_cost

\* Two optimal plans of positive cost for inputs that differ in current_empty
\* and in element 0 of the forecast of a port with a demand on a later day.
C27_Witness ==
    /\ VariesOnlyUnread
    /\ previous # NoCall
    /\ previous.call.path = "optimal" /\ call.path = "optimal"
    /\ result.total_cost > 0
    /\ \E i \in 1..Len(history[1].ports) :
          /\ history[1].ports[i].current_empty # history[2].ports[i].current_empty
          /\ history[1].ports[i].lstm_forecast[1] # history[2].ports[i].lstm_forecast[1]
          /\ \E t \in 2..Len(history[1].ports[i].lstm_forecast) :
                history[1].ports[i].lstm_forecast[t] # 0

(***************************************************************************)
(* Claims about the storage of the whole network.                          *)
(***************************************************************************)
\* The loaded containers of type c that sit at a loaded port.
HeldInNetwork(c) ==
    Cardinality({j \in 1..Len(containers) :
                    /\ containers[j].type = c
                    /\ \E i \in 1..Len(ports) : containers[j].current_port = ports[i].name})

\* demand_forecast[t] summed over the ports, an element beyond the end of a
\* forecast counting as 0.
NetworkDemand(t) ==
    SumSeq([i \in 1..Len(ports) |->
              IF t < Len(ports[i].demand_forecast)
              THEN ports[i].demand_forecast[t + 1] ELSE 0])

\* The storage of type c summed over the ports on day t of the returned plan.
NetworkStorage(c, t) ==
    SumSeq([i \in 1..Len(ports) |-> result.storage_plan[ports[i].name][c][t + 1]])

\* The total the conservation equations force on day t for one type.
ForcedTotal(c, t) ==
    HeldInNetwork(c) - SumSeq([d \in 1..t |-> NetworkDemand(d)])

\* C28: in an optimal redistribution result, for every container type, the
\* storage summed over the ports is on day 0 the number of loaded containers of
\* the type at known ports, and on day t > 0 the sum of the day before minus
\* demand_forecast[t] summed over the ports (the whole forecast once per type);
\* when such a total would be negative or above the summed port capacities the
\* call returns the error with the fallback.
C28_NetworkStorage ==
    /\ IsOptimalResult =>
          \A c \in TypeSet :
             /\ NetworkStorage(c, 0) = HeldInNetwork(c)
             /\ \A t \in 1..6 :
                   NetworkStorage(c, t) = NetworkStorage(c, t - 1) - NetworkDemand(t)
    /\ (/\ call.op = "redistribution"
        /\ call.path # "unavailable"
        /\ \E c \in TypeSet : \E t \in 0..6 :
              \/ ForcedTotal(c, t) < 0
              \/ ForcedTotal(c, t) > SumSeq([i \in 1..Len(ports) |-> ports[i].capacity])) =>
          /\ "error" \in DOMAIN result
          /\ "fallback_solution" \in DOMAIN result

\* A plan for two container types in a network whose ports consume on one day
\* and return on another, so that each type loses and gains the whole forecast.
C28_Witness ==
    /\ IsOptimalResult
    /\ Cardinality(TypeSet) = 2
    /\ \E t \in 1..6 : NetworkDemand(t) > 0
    /\ \E t \in 1..6 : NetworkDemand(t) < 0
    /\ \A c \in TypeSet : NetworkStorage(c, 0) = 1 /\ NetworkStorage(c, 1) = 0
                                /\ NetworkStorage(c, 2) = 1

(***************************************************************************)
(* Claims about repeated and failed loads.                                 *)
(***************************************************************************)
\* The entries of a payload in the order load_data visits them.
EntriesInOrder(data) ==
    LET tagged(kind) ==
            LET es == IF kind \in DOMAIN data THEN data[kind] ELSE <<>>
            IN [i \in 1..Len(es) |-> [kind |-> kind, entry |-> es[i]]]
    IN tagged("ports") \o tagged("containers") \o tagged("routes")

RequiredKeys(kind) ==
    CASE kind = "ports" -> {"name", "current_empty", "capacity", "lstm_forecast",
                            "storage_cost", "handling_cost", "lat", "lng"}
      [] kind = "containers" -> {"id", "type", "current_port", "dwell_time", "priority"}
      [] kind = "routes" -> {"from", "to", "distance", "cost", "transit_time", "capacity"}

\* The entries of a payload before its first entry that lacks a required key.
EntriesBeforeFailure(data) ==
    LET es == EntriesInOrder(data)
        complete(i) == RequiredKeys(es[i].kind) \subseteq DOMAIN es[i].entry
    IN SelectSeq([i \in 1..Len(es) |-> IF \A j \in 1..i : complete(j)
                                       THEN es[i] ELSE [kind |-> "none"]],
                 LAMBDA x : x.kind # "none")

RECURSIVE EntriesOfLoads(_)
\* The entries that the first k loads should have left in the model.
EntriesOfLoads(k) ==
    IF k = 0 THEN <<>>
    ELSE EntriesOfLoads(k - 1) \o EntriesBeforeFailure(history[k])

EntriesOfKind(kind) ==
    LET es == SelectSeq(EntriesOfLoads(Len(history)), LAMBDA x : x.kind = kind)
    IN [i \in 1..Len(es) |-> es[i].entry]

\* C29: a load applies the entries of its payload in the order ports,
\* containers, routes up to the first entry that lacks a required key and keeps
\* them when it fails; every load appends its containers and routes to those
\* already loaded, and a port it declares replaces the port of the same name.
C29_LoadsAccumulate ==
    LET pe == EntriesOfKind("ports")
        ce == EntriesOfKind("containers")
        re == EntriesOfKind("routes")
    IN /\ containers = [i \in 1..Len(ce) |->
                           [id |-> ce[i].id, type |-> ce[i].type,
                            current_port |-> ce[i].current_port]]
       /\ routes = [i \in 1..Len(re) |->
                       [from_port |-> re[i].from, to_port |-> re[i].to,
                        distance_km |-> re[i].distance, transport_cost |-> re[i].cost,
                        capacity_teu |-> re[i].capacity]]
       /\ {ports[i].name : i \in 1..Len(ports)} = {pe[i].name : i \in 1..Len(pe)}
       /\ \A i, j \in 1..Len(ports) : ports[i].name = ports[j].name => i = j
       /\ \A i \in 1..Len(ports) :
             LET last == CHOOSE k \in 1..Len(pe) :
                            /\ pe[k].name = ports[i].name
                            /\ \A x \in (k + 1)..Len(pe) : pe[x].name # ports[i].name
             IN /\ ports[i].current_empty = pe[last].current_empty
                /\ ports[i].capacity = pe[last].capacity
                /\ ports[i].demand_forecast = pe[last].lstm_forecast
                /\ ports[i].storage_cost_per_day = pe[last].storage_cost
       /\ pc = "failed" <=>
             (history # <<>> /\ Len(EntriesBeforeFailure(history[Len(history)]))
                                   < Len(EntriesInOrder(history[Len(history)])))

\* A load that failed at its second container, after a port and a container,
\* and a second load that replaced the port and added a container and a route.
C29_Witness ==
    /\ Len(history) = 2
    /\ Len(EntriesBeforeFailure(history[1])) = 2
    /\ Len(EntriesInOrder(history[1])) = 5
    /\ pc = "loaded"
    /\ Len(ports) = 1 /\ ports[1].capacity = 9
    /\ Len(containers) = 2
    /\ Len(routes) = 1

(***************************************************************************)
(* Claims about the exit of the command line once the input is loaded.     *)
(***************************************************************************)
\* The process has ended after load_data returned True.
ExitedAfterLoad == pc = "exited" /\ call # NoCall

\* C30: once the input is loaded, whatever main obtained, a plan or an error
\* object of an optimizer or the error object for an unknown optimization_type,
\* is printed to standard output as the last thing and the process ends with
\* status 0; a payload without optimization_type runs redistribution, an
\* unknown one runs no optimizer and yields the error object.
C30_ErrorsExitZero ==
    ExitedAfterLoad =>
        /\ exit_code = 0
        /\ stdout # <<>> /\ stdout[Len(stdout)] = [json |-> result]
        /\ ~HasJson(stderr)
        /\ "optimization_type" \notin DOMAIN input_data => call.op = "redistribution"
        /\ ("optimization_type" \in DOMAIN input_data
               /\ input_data.optimization_type
                     \notin {"redistribution", "routing", "assignment"}) =>
              /\ call.op = "unknown"
              /\ call.solves = 0
              /\ DOMAIN result = {"error"}

\* The run of a payload with an unknown optimization_type.
C30_Witness ==
    /\ ExitedAfterLoad
    /\ "optimization_type" \in DOMAIN input_data
    /\ input_data.optimization_type = "rebalance"
    /\ "error" \in DOMAIN result
    /\ stdout[Len(stdout)] = [json |-> result]
    /\ exit_code = 0

====
